---- MODULE Spec2Model ----
(***************************************************************************)
(* Model of the drone-operation simulator (proj_droneopr).                 *)
(*                                                                         *)
(*   W  watchdog           src/src/watchdog.c                              *)
(*   B  server/blackboard  src/src/server.c, src/util.c                    *)
(*   D  dynamics           src/src/dynamics.c                              *)
(*                                                                         *)
(* Part 1 models the watchdog's polling loop against an asynchronous       *)
(* heartbeat signal and a monotonic clock (specifications SpecW and        *)
(* SpecWFair).                                                             *)
(***************************************************************************)
EXTENDS Integers, Sequences, FiniteSets, TLC

(***************************************************************************)
(* Bounds of the model.                                                    *)
(***************************************************************************)
\* the monotonic clock is observed up to this many seconds
MaxTime == 8

(***************************************************************************)
(* Program constants.                                                      *)
(***************************************************************************)
\* run_watchdog_process(pipe_CFG_to_W[0], 2, 5)
WARN_SEC == 2
KILL_SEC == 5

VARIABLES
    \* ---- monotonic clock (CLOCK_MONOTONIC), in seconds
    now,
    \* ---- watchdog W (watchdog.c)
    g_got_beat,      \* static volatile sig_atomic_t g_got_beat
    g_last_beat_ts,  \* static struct timespec g_last_beat_ts
    warned,          \* int warned
    elapsed,         \* double elapsed (local of one loop iteration)
    wPc,             \* position of W in its polling loop
    wTermIdx,        \* how many of the five kill(..., SIGTERM) calls are done
    wSent,           \* every signal W has sent so far, in order
    \* ---- history of the current stall episode (observations, not program state)
    epWarns,         \* SIGUSR2 sent since the last recorded heartbeat
    epSeen,          \* some poll of this episode measured elapsed >= WARN_SEC
    beatInTime,      \* an unrecorded heartbeat was delivered while the true
                     \* elapsed time was still below KILL_SEC
    lastStall,       \* length and warnings of the last finished episode
    \* ---- channels (pipes), oldest message first
    keyQ,            \* I -> B  KeyMsg
    forceQ,          \* B -> D  ForceStateMsg
    stateQ,          \* D -> B  DroneStateMsg
    obsQ,            \* O -> B  ObstacleSetMsg
    tgtQ,            \* T -> B  TargetSetMsg
    cfgQ,            \* master -> W  WatchPids (the one-time configuration pipe)
    probe,           \* a call of a function of util.c: its arguments and result
    \* ---- server B (server.c)
    bPc,             \* position of B in its event loop
    rfds,            \* the descriptors select() reported readable
    bOut,            \* the ForceStateMsg B is writing to D (<<>> if none)
    bNext,           \* where B continues once that write has returned
    cur_force,       \* ForceStateMsg cur_force: the user-force accumulator
    cur_state,       \* DroneStateMsg cur_state: the mirror of D's state
    paused,          \* bool paused
    g_score,
    g_targets_collected,
    g_last_hit_step,
    g_step_counter,
    wd_warning_active,
    g_wd_warning_flag,
    g_wd_stop,
    g_obstacles,     \* Obstacle g_obstacles[NUM_OBSTACLES]
    g_targets,       \* Target g_targets[NUM_TARGETS]
    \* ---- dynamics D (dynamics.c)
    dPc,
    d_f,             \* ForceStateMsg f: the force D integrates with
    d_s,             \* DroneStateMsg s
    dTicks,          \* iterations of D's loop so far
    dCause,          \* why D ended
    \* ---- the producers I, O, T
    iPc, keysSent,
    oPc, tPc, batchesSent,
    \* ---- observations of B (not program state)
    hbCount,         \* kill(pid_W, SIGUSR1) calls made by B
    bExitCause,      \* the event at which B left its loop
    lastBatch,       \* kind of the batch B processed last, if the arrays
                     \* are still as that batch left them
    lastAccepted,    \* the value of "accepted" when that batch was done
    keysIgnored      \* keys B read and ignored because it was PAUSED

wVars == <<g_got_beat, g_last_beat_ts, warned, elapsed, wPc, wTermIdx, wSent,
           epWarns, epSeen, beatInTime, lastStall>>

chanVars == <<keyQ, forceQ, stateQ, obsQ, tgtQ>>

bCtl == <<bPc, rfds, bOut, bNext>>

bData == <<cur_force, cur_state, paused, g_score, g_targets_collected,
           g_last_hit_step, g_step_counter, wd_warning_active,
           g_obstacles, g_targets>>

bSig == <<g_wd_warning_flag, g_wd_stop>>

bObs == <<hbCount, bExitCause, lastBatch, lastAccepted, keysIgnored>>

dVars == <<dPc, d_f, d_s, dTicks, dCause>>

prodVars == <<iPc, keysSent, oPc, tPc, batchesSent>>

\* everything but the clock and the watchdog's own state
sysVars == <<chanVars, bCtl, bData, bSig, bObs, dVars, prodVars>>

vars == <<now, wVars, sysVars, cfgQ, probe>>

\* no call is being examined
NoProbe == <<>>

(***************************************************************************)
(* Part 1.  Watchdog (W)                                                   *)
(***************************************************************************)

\* kill(p.pid_B, SIGUSR2)
WarningSignal == [sig |-> "SIGUSR2", to |-> "B"]

\* (mutant) only the coordinator is signalled
TermOrder_CoordinatorOnly == <<"B">>

\* (mutant) the producers are signalled before the coordinator
TermOrder_ProducersFirst == <<"I", "D", "O", "T", "B">>

\* the five kill(..., SIGTERM) calls, in program order
TermOrder == <<"B", "I", "D", "O", "T">>

\* on_watchdog_warning, B's SIGUSR2 handler: g_wd_warning_flag = 1
\* (nothing is left to run the handler once B is gone)
WarningDelivered ==
    g_wd_warning_flag' = IF bPc \in {"b_done", "b_killed"} THEN g_wd_warning_flag ELSE 1

\* the effect of SIGTERM on its receiver: B's handler on_watchdog_stop sets
\* g_wd_stop; I, D, O and T have no handler and end
TermDelivered(to) ==
    /\ g_wd_stop' = IF to = "B" /\ bPc \notin {"b_done", "b_killed"} THEN 1 ELSE g_wd_stop
    /\ iPc' = IF to = "I" THEN "i_done" ELSE iPc
    /\ dPc' = IF to = "D" THEN "d_done" ELSE dPc
    /\ dCause' = IF to = "D" /\ dPc # "d_done" THEN "sigterm" ELSE dCause
    /\ oPc' = IF to = "O" THEN "o_done" ELSE oPc
    /\ tPc' = IF to = "T" THEN "t_done" ELSE tPc

\* State of W when it enters its main loop: handler installed,
\* g_last_beat_ts initialised to "now", warned = 0.
InitWAt(pc) ==
    /\ g_got_beat = 0
    /\ g_last_beat_ts = 0
    /\ warned = 0
    /\ elapsed = 0
    /\ wPc = pc
    /\ wTermIdx = 0
    /\ wSent = <<>>
    /\ epWarns = 0
    /\ epSeen = FALSE
    /\ beatInTime = FALSE
    /\ lastStall = [len |-> 0, warns |-> 0]

InitW == InitWAt("w_flag")

\* The monotonic clock advances; any amount of time may pass between two
\* steps of W (preemption, nanosleep).
Tick ==
    /\ now < MaxTime
    /\ now' = now + 1
    /\ UNCHANGED wVars
    /\ UNCHANGED sysVars
    /\ UNCHANGED <<cfgQ, probe>>

\* B's kill(pid_W, SIGUSR1) is delivered: on_sigusr1 runs, at any point of
\* W's loop.
on_sigusr1 ==
    /\ wPc # "w_done"
    /\ g_got_beat' = 1
    /\ beatInTime' = (beatInTime \/ (now - g_last_beat_ts < KILL_SEC))
    /\ UNCHANGED <<now, g_last_beat_ts, warned, elapsed, wPc, wTermIdx, wSent,
                   epWarns, epSeen, lastStall>>
    /\ UNCHANGED sysVars
    /\ UNCHANGED <<cfgQ, probe>>

\* if (g_got_beat) { g_got_beat = 0; clock_gettime(&g_last_beat_ts); warned = 0; }
WCheckFlag ==
    /\ wPc = "w_flag"
    /\ IF g_got_beat # 0
         THEN /\ g_got_beat' = 0
              /\ g_last_beat_ts' = now
              /\ warned' = 0
              /\ lastStall' = [len |-> now - g_last_beat_ts, warns |-> epWarns]
              /\ epWarns' = 0
              /\ epSeen' = FALSE
              /\ beatInTime' = FALSE
         ELSE UNCHANGED <<g_got_beat, g_last_beat_ts, warned, lastStall,
                          epWarns, epSeen, beatInTime>>
    /\ wPc' = "w_clock"
    /\ UNCHANGED <<now, elapsed, wTermIdx, wSent>>
    /\ UNCHANGED sysVars
    /\ UNCHANGED <<cfgQ, probe>>

\* double elapsed = now_monotonic_sec() - ts_to_sec(&g_last_beat_ts);
WReadClock ==
    /\ wPc = "w_clock"
    /\ elapsed' = now - g_last_beat_ts
    /\ wPc' = "w_warn"
    /\ UNCHANGED <<now, g_got_beat, g_last_beat_ts, warned, wTermIdx, wSent,
                   epWarns, epSeen, beatInTime, lastStall>>
    /\ UNCHANGED sysVars
    /\ UNCHANGED <<cfgQ, probe>>

\* (mutant) the warning is not latched: "!warned" is not tested
WWarnStage_NoLatch ==
    /\ wPc = "w_warn"
    /\ IF elapsed >= WARN_SEC
         THEN /\ warned' = 1
              /\ wSent' = Append(wSent, WarningSignal)
              /\ epWarns' = epWarns + 1
              /\ WarningDelivered
         ELSE UNCHANGED <<warned, wSent, epWarns, g_wd_warning_flag>>
    /\ epSeen' = (epSeen \/ elapsed >= WARN_SEC)
    /\ wPc' = "w_kill"
    /\ UNCHANGED <<now, g_got_beat, g_last_beat_ts, elapsed, wTermIdx,
                   beatInTime, lastStall>>
    /\ UNCHANGED <<chanVars, bCtl, bData, g_wd_stop, bObs, dVars, prodVars>>
    /\ UNCHANGED <<cfgQ, probe>>

\* (mutant) the warning is the alternative of the kill: it is skipped in a
\* poll that finds the kill threshold exceeded
WWarnStage_UnlessKill ==
    /\ wPc = "w_warn"
    /\ IF warned = 0 /\ elapsed >= WARN_SEC /\ elapsed < KILL_SEC
         THEN /\ warned' = 1
              /\ wSent' = Append(wSent, WarningSignal)
              /\ epWarns' = epWarns + 1
              /\ WarningDelivered
         ELSE UNCHANGED <<warned, wSent, epWarns, g_wd_warning_flag>>
    /\ epSeen' = (epSeen \/ elapsed >= WARN_SEC)
    /\ wPc' = "w_kill"
    /\ UNCHANGED <<now, g_got_beat, g_last_beat_ts, elapsed, wTermIdx,
                   beatInTime, lastStall>>
    /\ UNCHANGED <<chanVars, bCtl, bData, g_wd_stop, bObs, dVars, prodVars>>
    /\ UNCHANGED <<cfgQ, probe>>

\* if (!warned && elapsed >= (double)warn_sec) { warned = 1; kill(p.pid_B, SIGUSR2); }
WWarnStage ==
    /\ wPc = "w_warn"
    /\ IF warned = 0 /\ elapsed >= WARN_SEC
         THEN /\ warned' = 1
              /\ wSent' = Append(wSent, WarningSignal)
              /\ epWarns' = epWarns + 1
              /\ WarningDelivered
         ELSE UNCHANGED <<warned, wSent, epWarns, g_wd_warning_flag>>
    /\ epSeen' = (epSeen \/ elapsed >= WARN_SEC)
    /\ wPc' = "w_kill"
    /\ UNCHANGED <<now, g_got_beat, g_last_beat_ts, elapsed, wTermIdx,
                   beatInTime, lastStall>>
    /\ UNCHANGED <<chanVars, bCtl, bData, g_wd_stop, bObs, dVars, prodVars>>
    /\ UNCHANGED <<cfgQ, probe>>

\* (mutant) the kill stage tests the warning threshold
WKillStage_WarnThreshold ==
    /\ wPc = "w_kill"
    /\ wPc' = IF elapsed >= WARN_SEC THEN "w_term" ELSE "w_sleep"
    /\ UNCHANGED <<now, g_got_beat, g_last_beat_ts, warned, elapsed, wTermIdx,
                   wSent, epWarns, epSeen, beatInTime, lastStall>>
    /\ UNCHANGED sysVars
    /\ UNCHANGED <<cfgQ, probe>>

\* if (elapsed >= (double)kill_sec) { ...broadcast...; break; }
WKillStage ==
    /\ wPc = "w_kill"
    /\ wPc' = IF elapsed >= KILL_SEC THEN "w_term" ELSE "w_sleep"
    /\ UNCHANGED <<now, g_got_beat, g_last_beat_ts, warned, elapsed, wTermIdx,
                   wSent, epWarns, epSeen, beatInTime, lastStall>>
    /\ UNCHANGED sysVars
    /\ UNCHANGED <<cfgQ, probe>>

\* kill(p.pid_B, SIGTERM); kill(p.pid_I, ...); ... ; break; exit(EXIT_SUCCESS)
WBroadcastCore ==
    /\ wPc = "w_term"
    /\ wTermIdx < Len(TermOrder)
    /\ wTermIdx' = wTermIdx + 1
    /\ wSent' = Append(wSent, [sig |-> "SIGTERM", to |-> TermOrder[wTermIdx + 1]])
    /\ wPc' = IF wTermIdx + 1 = Len(TermOrder) THEN "w_done" ELSE "w_term"
    /\ UNCHANGED <<now, g_got_beat, g_last_beat_ts, warned, elapsed,
                   epWarns, epSeen, beatInTime, lastStall>>
    /\ TermDelivered(TermOrder[wTermIdx + 1])
    /\ UNCHANGED <<chanVars, rfds, bOut, bNext, bData, g_wd_warning_flag,
                   bObs, d_f, d_s, dTicks, keysSent, batchesSent>>
    /\ UNCHANGED <<cfgQ, probe>>

\* the broadcast where the position of B is not touched by the signal
WBroadcast ==
    /\ WBroadcastCore
    /\ UNCHANGED bPc

\* nanosleep(100 ms); the iteration's local "elapsed" goes out of scope
WSleep ==
    /\ wPc = "w_sleep"
    /\ wPc' = "w_flag"
    /\ elapsed' = 0
    /\ UNCHANGED <<now, g_got_beat, g_last_beat_ts, warned, wTermIdx, wSent,
                   epWarns, epSeen, beatInTime, lastStall>>
    /\ UNCHANGED sysVars
    /\ UNCHANGED <<cfgQ, probe>>

\* one step of run_watchdog_process's main loop
WStep ==
    \/ WCheckFlag
    \/ WReadClock
    \/ WWarnStage
    \/ WKillStage
    \/ WBroadcast
    \/ WSleep

(***************************************************************************)
(* Part 2.  Numbers, parameters and the pure helpers of util.c             *)
(*                                                                         *)
(* The C doubles are modelled in fixed point: forces, positions and        *)
(* velocities are integers in units of 1/Scale.  Distances between points  *)
(* are evaluated in units of 1/Coarse so that their squares fit.           *)
(***************************************************************************)
Scale == 100 * 100
Coarse == 10 * 10

\* a / b truncated towards zero, as a C conversion of the quotient
Div(a, b) == IF a >= 0 THEN a \div b ELSE -((-a) \div b)

Abs(a) == IF a >= 0 THEN a ELSE -a

\* a fine-unit length in coarse units, rounded to the nearest
ToCoarse(a) == IF a >= 0 THEN (a + 50) \div 100 ELSE -((-a + 50) \div 100)

RECURSIVE SqrtIter(_, _, _)
SqrtIter(n, lo, hi) ==
    IF lo >= hi THEN lo
    ELSE LET mid == (lo + hi + 1) \div 2
         IN IF mid * mid <= n THEN SqrtIter(n, mid, hi)
                              ELSE SqrtIter(n, lo, mid - 1)

\* sqrt(), rounded down
Sqrt(n) == SqrtIter(n, 0, 46340)

\* init_default_params
mass == 1
visc == 1
force_step == 5
world_half == 50
wall_clearance == 5
\* dt = 0.05 and wall_gain = 0.1, as the divisors 1/dt and 1/wall_gain
dtInv == 100 \div 5
wallGainInv == 100 \div 10

NUM_OBSTACLES == 12
NUM_TARGETS == 12

ZeroForce == [Fx |-> 0, Fy |-> 0, reset |-> 0]
ZeroState == [x |-> 0, y |-> 0, vx |-> 0, vy |-> 0]
\* a slot of g_obstacles / g_targets as zero-initialised static storage
ZeroSlot == [x |-> 0, y |-> 0, active |-> 0, life_steps |-> 0]

\* direction_from_key: the unit increments of the 9-key cluster
direction_from_key(key) ==
    CASE key = "w" -> <<-1, 1>>
      [] key = "e" -> <<0, 1>>
      [] key = "r" -> <<1, 1>>
      [] key = "s" -> <<-1, 0>>
      [] key = "d" -> <<0, 0>>
      [] key = "f" -> <<1, 0>>
      [] key = "x" -> <<-1, -1>>
      [] key = "c" -> <<0, -1>>
      [] key = "v" -> <<1, -1>>
      [] OTHER -> <<0, 0>>

\* INV_SQRT2 = 0.7071067811865475, in thousandths
INV_SQRT2 == 707
Unit == 10 * 100

\* g_dir8: key and unit vector (in thousandths) of the 8 directions
g_dir8 ==
    << [key |-> "w", ux |-> -INV_SQRT2, uy |-> INV_SQRT2],
       [key |-> "e", ux |-> 0,          uy |-> Unit],
       [key |-> "r", ux |-> INV_SQRT2,  uy |-> INV_SQRT2],
       [key |-> "s", ux |-> -Unit,      uy |-> 0],
       [key |-> "f", ux |-> Unit,       uy |-> 0],
       [key |-> "x", ux |-> -INV_SQRT2, uy |-> -INV_SQRT2],
       [key |-> "c", ux |-> 0,          uy |-> -Unit],
       [key |-> "v", ux |-> INV_SQRT2,  uy |-> -INV_SQRT2] >>

\* dot2 of a vector with a unit vector given in thousandths
dot2(ax, ay, bx, by) == Div(ax * bx + ay * by, Unit)

RECURSIVE BestDirIter(_, _, _, _, _)
BestDirIter(Px, Py, i, best_dot, best_idx) ==
    IF i > 8 THEN best_idx
    ELSE LET dot == dot2(Px, Py, g_dir8[i].ux, g_dir8[i].uy)
         IN IF dot > best_dot THEN BestDirIter(Px, Py, i + 1, dot, i)
                              ELSE BestDirIter(Px, Py, i + 1, best_dot, best_idx)

\* (mutant) the largest projection wins whatever its sign
best_dir8_for_vector_AnySign(Px, Py) ==
    CHOOSE i \in 1..8 :
        \A j \in 1..8 :
            dot2(Px, Py, g_dir8[i].ux, g_dir8[i].uy)
                >= dot2(Px, Py, g_dir8[j].ux, g_dir8[j].uy)

\* best_dir8_for_vector: index (1..8) of the largest positive projection,
\* the first one on ties; -1 if no projection is positive
best_dir8_for_vector(Px, Py) == BestDirIter(Px, Py, 1, 0, -1)

\* squared distance of two points given in fine units, in coarse units
Dist2(ax, ay, bx, by) ==
    LET dx == ToCoarse(ax - bx)
        dy == ToCoarse(ay - by)
    IN dx * dx + dy * dy

\* compute_repulsive_P(include_walls = true, include_obstacles = false):
\* the wall field at state s, in fine units
WallMag(d) ==
    LET dd  == IF d < Scale \div 1000 THEN Scale \div 1000 ELSE d  \* eps = 1e-3
        mag == Div((Scale * Scale) \div dd - Scale \div wall_clearance, wallGainInv)
    IN IF mag < 0 THEN 0 ELSE mag

\* (mutant) the field of each wall without the clearance test and without
\* the clamp at zero
compute_wall_P_NoRange(s) ==
    LET wh  == world_half * Scale
        raw(d) == Div((Scale * Scale) \div (IF d < 10 THEN 10 ELSE d)
                      - Scale \div wall_clearance, wallGainInv)
    IN <<raw(wh + s.x) - raw(wh - s.x), raw(wh + s.y) - raw(wh - s.y)>>

compute_wall_P(s) ==
    LET wh      == world_half * Scale
        clr     == wall_clearance * Scale
        d_right == wh - s.x
        d_left  == wh + s.x
        d_top   == wh - s.y
        d_bot   == wh + s.y
        Px == (IF d_left < clr THEN WallMag(d_left) ELSE 0)
              - (IF d_right < clr THEN WallMag(d_right) ELSE 0)
        Py == (IF d_bot < clr THEN WallMag(d_bot) ELSE 0)
              - (IF d_top < clr THEN WallMag(d_top) ELSE 0)
    IN <<Px, Py>>

\* one obstacle's contribution, in coarse units of force
ObstacleTerm(s, o) ==
    LET obs_clearance == (world_half * 30 * Coarse) \div 100   \* world_half * 0.30
        obs_gain == 120
        dx  == ToCoarse(s.x - o.x)
        dy  == ToCoarse(s.y - o.y)
        rho == Sqrt(dx * dx + dy * dy)
    IN IF o.active = 0 \/ rho = 0 \/ rho >= obs_clearance THEN <<0, 0>>
       ELSE LET m   == obs_gain * ((Coarse * Scale) \div rho
                                   - (Coarse * Scale) \div obs_clearance)
                mag == IF m < 0 THEN 0 ELSE m            \* in fine units
            IN <<Div(Div(mag * dx, rho), 100), Div(Div(mag * dy, rho), 100)>>

RECURSIVE ObstacleSum(_, _, _)
ObstacleSum(s, obs, k) ==
    IF k = 0 THEN <<0, 0>>
    ELSE LET rest == ObstacleSum(s, obs, k - 1)
             t    == ObstacleTerm(s, obs[k])
         IN <<rest[1] + t[1], rest[2] + t[2]>>

\* compute_repulsive_P(include_walls = false, include_obstacles = true):
\* the obstacle field at state s, in coarse units of force
compute_obstacle_P(s, obs) == ObstacleSum(s, obs, NUM_OBSTACLES)

\* n_steps = (int)(best_dot / (force_step + 1e-9) + 0.5), best_dot > 0 in
\* coarse units: the nearest integer, a half rounding down
VirtualSteps_AtLeastOne(best_dot) ==
    LET n == (best_dot + (force_step * Coarse) \div 2 - 1)
                 \div (force_step * Coarse)
    IN IF n < 1 THEN 1 ELSE n
VirtualSteps(best_dot) ==
    (best_dot + (force_step * Coarse) \div 2 - 1) \div (force_step * Coarse)

\* send_total_force_to_d: the ForceStateMsg written for user force uf when
\* the mirror is at s: the user force plus the virtual key of the field
TotalForce(uf, s, obs) ==
    LET P    == compute_obstacle_P(s, obs)
        Px   == P[1]
        Py   == P[2]
        idx  == best_dir8_for_vector(Px, Py)
    IN IF Px = 0 /\ Py = 0 THEN uf                       \* Pnorm2 < 1e-6
       ELSE IF idx < 0 THEN uf
       ELSE LET best_dot == dot2(Px, Py, g_dir8[idx].ux, g_dir8[idx].uy)
                n_steps  == VirtualSteps(best_dot)
                d        == direction_from_key(g_dir8[idx].key)
            IN IF best_dot <= 0 THEN uf
               ELSE [uf EXCEPT !.Fx = @ + n_steps * d[1] * force_step * Scale,
                               !.Fy = @ + n_steps * d[2] * force_step * Scale]

(***************************************************************************)
(* Part 3.  Entities: batch validation, hits, ageing; D's integration step *)
(***************************************************************************)

\* world_half * 0.15, the clearance both batch handlers pass to
\* too_close_to_any_pointlike, in coarse units
SpawnClearance == (world_half * 15 * Coarse) \div 100

\* too_close_to_any_pointlike(px, py, arr, count, min_dist)
too_close_to_any_pointlike(px, py, arr, min_dist) ==
    \E i \in DOMAIN arr :
        /\ arr[i].active # 0
        /\ Dist2(px, py, arr[i].x, arr[i].y) <= min_dist * min_dist

\* target_too_close_to_wall(x, y, params, wall_margin), wall_margin in
\* fine units
target_too_close_to_wall(x, y, wall_margin) ==
    LET insp_width == 35
        wh         == world_half * Scale
        mod_wh     == wh - wall_margin + insp_width * Scale
        dx_to_wall == mod_wh - Abs(x)
        dy_to_wall == wh - Abs(y)
    IN dx_to_wall < wall_margin \/ dy_to_wall < wall_margin

\* the candidate loop of the obstacle handler: candidates i..requested of
\* msg are validated against the array that is being overwritten
RECURSIVE ObstacleLoop(_, _, _, _, _)
ObstacleLoop(arr, ent, i, requested, accepted) ==
    IF i > requested THEN [arr |-> arr, accepted |-> accepted]
    ELSE IF too_close_to_any_pointlike(ent[i].x, ent[i].y, arr, SpawnClearance)
      THEN ObstacleLoop(arr, ent, i + 1, requested, accepted)
    ELSE IF accepted < NUM_OBSTACLES
      THEN ObstacleLoop([arr EXCEPT ![accepted + 1] =
                            [x |-> ent[i].x, y |-> ent[i].y, active |-> 1,
                             life_steps |-> ent[i].life_steps]],
                        ent, i + 1, requested, accepted + 1)
    ELSE ObstacleLoop(arr, ent, i + 1, requested, accepted)

\* (mutant) the slots behind the accepted ones are left as they were
DeactivateObstaclesFrom_Skip(arr, accepted) == arr

\* for (i = accepted; i < NUM_OBSTACLES; ++i) { active = 0; life_steps = 0; }
DeactivateObstaclesFrom(arr, accepted) ==
    [i \in DOMAIN arr |->
        IF i > accepted THEN [arr[i] EXCEPT !.active = 0, !.life_steps = 0]
                        ELSE arr[i]]

\* the obstacle handler's RUNNING branch applied to g_obstacles = arr
ProcessObstacleBatch(arr, msg) ==
    LET requested == IF msg.count > NUM_OBSTACLES THEN NUM_OBSTACLES
                                                  ELSE msg.count
        r == ObstacleLoop(arr, msg.ent, 1, requested, 0)
    IN [arr |-> DeactivateObstaclesFrom(r.arr, r.accepted),
        accepted |-> r.accepted]

\* the candidate loop of the target handler
RECURSIVE TargetLoop(_, _, _, _, _)
TargetLoop(arr, ent, i, requested, accepted) ==
    IF i > requested THEN [arr |-> arr, accepted |-> accepted]
    ELSE IF target_too_close_to_wall(ent[i].x, ent[i].y,
                                     (world_half * 20 * Scale) \div 100)
      THEN TargetLoop(arr, ent, i + 1, requested, accepted)
    ELSE IF too_close_to_any_pointlike(ent[i].x, ent[i].y, arr, SpawnClearance)
      THEN TargetLoop(arr, ent, i + 1, requested, accepted)
    ELSE IF accepted < NUM_TARGETS
      THEN TargetLoop([arr EXCEPT ![accepted + 1] =
                          [x |-> ent[i].x, y |-> ent[i].y, active |-> 1,
                           life_steps |-> ent[i].life_steps]],
                      ent, i + 1, requested, accepted + 1)
    ELSE TargetLoop(arr, ent, i + 1, requested, accepted)

\* for (i = accepted; i < NUM_TARGETS; ++i) { active = 0; life_steps = 0; }
DeactivateTargetsFrom(arr, accepted) ==
    [i \in DOMAIN arr |->
        IF i > accepted THEN [arr[i] EXCEPT !.active = 0, !.life_steps = 0]
                        ELSE arr[i]]

\* the target handler's RUNNING branch applied to g_targets = arr
ProcessTargetBatch(arr, msg) ==
    LET requested == IF msg.count > NUM_TARGETS THEN NUM_TARGETS ELSE msg.count
        r == TargetLoop(arr, msg.ent, 1, requested, 0)
    IN [arr |-> DeactivateTargetsFrom(r.arr, r.accepted),
        accepted |-> r.accepted]

\* (mutant) the active flag of a target is not looked at
HitSet_IgnoringActive(st, targets) ==
    LET R_hit == (world_half * 8 * Coarse) \div 100
    IN {i \in DOMAIN targets :
          Dist2(st.x, st.y, targets[i].x, targets[i].y) <= R_hit * R_hit}

\* check_target_hits: the targets within R_hit = world_half * 0.08 of st
HitSet(st, targets) ==
    LET R_hit == (world_half * 8 * Coarse) \div 100
    IN {i \in DOMAIN targets :
          /\ targets[i].active # 0
          /\ Dist2(st.x, st.y, targets[i].x, targets[i].y) <= R_hit * R_hit}

\* check_target_hits: its effect on the target array
check_target_hits(st, targets) ==
    [i \in DOMAIN targets |->
        IF i \in HitSet(st, targets)
          THEN [targets[i] EXCEPT !.active = 0, !.life_steps = 0]
          ELSE targets[i]]

\* (mutant) an entity is deactivated one step before its lifetime is over
Age_Early(arr) ==
    [i \in DOMAIN arr |->
        IF arr[i].active # 0 /\ arr[i].life_steps > 0
          THEN [arr[i] EXCEPT !.life_steps = @ - 1,
                              !.active = IF arr[i].life_steps - 1 <= 1 THEN 0 ELSE @]
          ELSE arr[i]]

\* the ageing loops of the tick handler: one step of lifetime is used up
Age(arr) ==
    [i \in DOMAIN arr |->
        IF arr[i].active # 0 /\ arr[i].life_steps > 0
          THEN [arr[i] EXCEPT !.life_steps = @ - 1,
                              !.active = IF arr[i].life_steps - 1 = 0 THEN 0 ELSE @]
          ELSE arr[i]]

\* (mutant) the position is advanced with the velocity of the tick before
Integrate_OldVelocity(f, st) ==
    LET Pw == compute_wall_P(st)
        ax == Div(f.Fx + Pw[1] - visc * st.vx, mass)
        ay == Div(f.Fy + Pw[2] - visc * st.vy, mass)
    IN [x |-> st.x + Div(st.vx, dtInv), y |-> st.y + Div(st.vy, dtInv),
        vx |-> st.vx + Div(ax, dtInv), vy |-> st.vy + Div(ay, dtInv)]

\* D's loop body between its read and its write: wall field, Newton's law
\* with viscous damping, one Euler step
Integrate(f, st) ==
    LET Pw       == compute_wall_P(st)
        Fx_total == f.Fx + Pw[1]
        Fy_total == f.Fy + Pw[2]
        ax       == Div(Fx_total - visc * st.vx, mass)
        ay       == Div(Fy_total - visc * st.vy, mass)
        vx       == st.vx + Div(ax, dtInv)
        vy       == st.vy + Div(ay, dtInv)
    IN [x |-> st.x + Div(vx, dtInv), y |-> st.y + Div(vy, dtInv),
        vx |-> vx, vy |-> vy]

(***************************************************************************)
(* Part 4.  The processes B, D, I, O, T and their channels                 *)
(*                                                                         *)
(* A pipe is a bounded FIFO.  A write to a full pipe blocks (only D's read *)
(* end of the force pipe is O_NONBLOCK); a write to a pipe whose reader is *)
(* gone ends the writer; a read of an empty pipe whose writer is gone      *)
(* returns 0.                                                              *)
(***************************************************************************)
ForceCap == 1
StateCap == 1
KeyCap == 1
BatchCap == 1
MaxKeys == 2
MaxTicks == 3
MaxBatches == 2

\* what a read() of a message that is in the pipe can return: all of its
\* bytes, or fewer
FullRead == {"full"}
PartialRead == {"partial"}
AnyRead == FullRead \cup PartialRead

\* B has closed its descriptors (exit) or was ended by a signal
BGone == bPc \in {"b_done", "b_killed"}
DGone == dPc = "d_done"

\* the order in which one iteration of B's loop tests FD_ISSET
HandlerPc == <<"b_kb", "b_st", "b_obs", "b_tgt">>
HandlerFd == <<"fd_kb", "fd_from_d", "fd_obs", "fd_tgt">>

RECURSIVE HandlerFrom(_, _)
HandlerFrom(k, r) ==
    IF k > Len(HandlerPc) THEN "b_top"
    ELSE IF HandlerFd[k] \in r THEN HandlerPc[k] ELSE HandlerFrom(k + 1, r)

\* rfds is local to one iteration of the loop
RfdsAt(pc) == IF pc = "b_top" THEN {} ELSE rfds

\* what select() finds readable: data, or end-of-stream
Readable ==
    (IF keyQ # <<>> \/ iPc = "i_done" THEN {"fd_kb"} ELSE {})
    \cup (IF stateQ # <<>> \/ DGone THEN {"fd_from_d"} ELSE {})
    \cup (IF obsQ # <<>> \/ oPc = "o_done" THEN {"fd_obs"} ELSE {})
    \cup (IF tgtQ # <<>> \/ tPc = "t_done" THEN {"fd_tgt"} ELSE {})

\* B after its set-up: handlers installed, blackboard zeroed, about to make
\* the initial send_total_force_to_d(..., "init")
InitBAt(pc) ==
    /\ bPc = pc
    /\ rfds = {}
    /\ bOut = <<TotalForce(ZeroForce, ZeroState, [i \in 1..NUM_OBSTACLES |-> ZeroSlot])>>
    /\ bNext = "b_top"
    /\ cur_force = ZeroForce
    /\ cur_state = ZeroState
    /\ paused = FALSE
    /\ g_score = 0
    /\ g_targets_collected = 0
    /\ g_last_hit_step = 0
    /\ g_step_counter = 0
    /\ wd_warning_active = 0
    /\ g_wd_warning_flag = 0
    /\ g_wd_stop = 0
    /\ g_obstacles = [i \in 1..NUM_OBSTACLES |-> ZeroSlot]
    /\ g_targets = [i \in 1..NUM_TARGETS |-> ZeroSlot]
    /\ hbCount = 0
    /\ bExitCause = "none"
    /\ lastBatch = "none"
    /\ lastAccepted = 0
    /\ keysIgnored = 0

InitB == InitBAt("b_write")

\* the write() inside send_total_force_to_d, to a pipe that holds cap
\* commands
BWriteTo(cap) ==
    /\ bPc = "b_write"
    /\ IF DGone
         THEN \* no reader is left: SIGPIPE, default action
              /\ bPc' = "b_killed"
              /\ UNCHANGED <<forceQ, bOut, bNext>>
         ELSE /\ Len(forceQ) < cap
              /\ forceQ' = Append(forceQ, bOut[1])
              /\ bOut' = <<>>
              /\ bPc' = bNext
              /\ bNext' = "b_top"
    /\ rfds' = IF ~DGone /\ bNext = "b_top" THEN {} ELSE rfds
    /\ UNCHANGED <<keyQ, stateQ, obsQ, tgtQ, bData, bSig, bObs, dVars,
                   prodVars, now, wVars>>
    /\ UNCHANGED <<cfgQ, probe>>

BWrite == BWriteTo(ForceCap)

\* (mutant) the termination flag is not looked at
StopRequested_Never(flag) == FALSE

\* if (g_wd_stop) { ...; break; }
StopRequested(flag) == flag # 0

\* top of the loop: the two watchdog flags
BTop ==
    /\ bPc = "b_top"
    /\ g_wd_warning_flag' = 0
    /\ wd_warning_active' = IF g_wd_warning_flag # 0 THEN 1 ELSE wd_warning_active
    /\ IF StopRequested(g_wd_stop)
         THEN bPc' = "b_exit" /\ bExitCause' = "wd_stop"
         ELSE bPc' = "b_select" /\ UNCHANGED bExitCause
    /\ UNCHANGED <<chanVars, rfds, bOut, bNext, cur_force, cur_state, paused,
                   g_score, g_targets_collected, g_last_hit_step,
                   g_step_counter, g_obstacles, g_targets, g_wd_stop,
                   hbCount, lastBatch, lastAccepted, keysIgnored, dVars,
                   prodVars, now,
                   wVars>>
    /\ UNCHANGED <<cfgQ, probe>>

\* select() with its 100 ms timeout returns the descriptors readable at
\* that moment, possibly none
BSelect ==
    /\ bPc = "b_select"
    /\ rfds' = Readable
    /\ bPc' = HandlerFrom(1, Readable)
    /\ UNCHANGED <<chanVars, bOut, bNext, bData, bSig, bObs, dVars, prodVars,
                   now, wVars>>
    /\ UNCHANGED <<cfgQ, probe>>

\* the keys of the model: quit, pause, reset, brake and one direction
Keys == {"q", "p", "O", "d", "f"}

\* (mutant) the pause key is taken for a quit request as well
QuitKeys_WithPause == {"q", "p"}

\* if (km.key == 'q') break;
QuitKeys == {"q"}

\* the user force handed to send_total_force_to_d by the reset branch:
\* Fx = Fy = 0 and reset = 1
ResetCommand_FlagClear == ZeroForce
ResetCommand == [ZeroForce EXCEPT !.reset = 1]

\* (mutant) entering pause keeps the accumulated force
PauseCommand_Kept(force) == [force EXCEPT !.reset = 0]

\* (mutant) entering pause zeroes the y component only
PauseCommand_ZeroFy(force) == [force EXCEPT !.Fy = 0, !.reset = 0]

\* the pause branch: cur_force.Fx = 0.0; cur_force.Fy = 0.0;
\* cur_force.reset = 0, then handed to send_total_force_to_d
PauseCommand(force) == ZeroForce

\* cur_force.Fx += dFx * params.force_step (and Fy); cur_force.reset = 0
Accumulate_Twice(force, d) ==
    [Fx |-> force.Fx + 2 * d[1] * force_step * Scale,
     Fy |-> force.Fy + 2 * d[2] * force_step * Scale,
     reset |-> 0]
Accumulate(force, d) ==
    [Fx |-> force.Fx + d[1] * force_step * Scale,
     Fy |-> force.Fy + d[2] * force_step * Scale,
     reset |-> 0]

\* if (!paused): a directional key or the brake acts on the force
KeyApplied_Always(isPaused) == TRUE
KeyApplied(isPaused) == ~isPaused

\* if (FD_ISSET(fd_kb, &rfds)) { ... }
BKey ==
    /\ bPc = "b_kb"
    /\ IF keyQ = <<>>
         THEN \* read() returns 0: the keyboard process ended
              /\ bPc' = "b_exit"
              /\ bExitCause' = "kb_eof"
              /\ UNCHANGED <<keyQ, rfds, bOut, bNext, cur_force, cur_state, paused>>
         ELSE LET key    == Head(keyQ)
                  next   == HandlerFrom(2, rfds)
                  d      == direction_from_key(key)
                  braked == [Fx |-> 0, Fy |-> 0, reset |-> 0]
                  pushed == Accumulate(cur_force, d)
              IN /\ keyQ' = Tail(keyQ)
                 /\ CASE key \in QuitKeys ->
                           /\ bPc' = "b_exit"
                           /\ bExitCause' = "quit"
                           /\ UNCHANGED <<rfds, bOut, bNext, cur_force, cur_state, paused>>
                      [] key \notin QuitKeys /\ key = "p" /\ ~paused ->
                           \* entering pause: zero the force and send it
                           /\ paused' = TRUE
                           /\ cur_force' = PauseCommand(cur_force)
                           /\ bOut' = <<TotalForce(PauseCommand(cur_force),
                                                   cur_state, g_obstacles)>>
                           /\ bPc' = "b_write"
                           /\ bNext' = next
                           /\ UNCHANGED bExitCause
                           /\ UNCHANGED <<rfds, cur_state>>
                      [] key \notin QuitKeys /\ key = "p" /\ paused ->
                           /\ paused' = FALSE
                           /\ bPc' = next
                           /\ rfds' = RfdsAt(next)
                           /\ UNCHANGED bExitCause
                           /\ UNCHANGED <<bOut, bNext, cur_force, cur_state>>
                      [] key \notin QuitKeys /\ key = "O" ->
                           \* the command is sent with reset = 1, then the
                           \* flag is cleared locally
                           /\ cur_state' = ZeroState
                           /\ cur_force' = ZeroForce
                           /\ bOut' = <<TotalForce(ResetCommand, ZeroState,
                                                   g_obstacles)>>
                           /\ paused' = FALSE
                           /\ bPc' = "b_write"
                           /\ bNext' = next
                           /\ UNCHANGED bExitCause
                           /\ UNCHANGED rfds
                      [] key \notin QuitKeys \cup {"p", "O"} /\ KeyApplied(paused) ->
                           /\ cur_force' = IF key = "d" THEN braked ELSE pushed
                           /\ bOut' = <<TotalForce(IF key = "d" THEN braked ELSE pushed,
                                                   cur_state, g_obstacles)>>
                           /\ bPc' = "b_write"
                           /\ bNext' = next
                           /\ UNCHANGED bExitCause
                           /\ UNCHANGED <<rfds, cur_state, paused>>
                      [] key \notin QuitKeys \cup {"p", "O"} /\ ~KeyApplied(paused) ->
                           /\ bPc' = next
                           /\ rfds' = RfdsAt(next)
                           /\ UNCHANGED bExitCause
                           /\ UNCHANGED <<bOut, bNext, cur_force, cur_state, paused>>
    /\ keysIgnored' = IF /\ keyQ # <<>>
                          /\ Head(keyQ) \notin QuitKeys \cup {"p", "O"}
                          /\ ~KeyApplied(paused)
                       THEN keysIgnored + 1
                       ELSE keysIgnored
    /\ UNCHANGED <<forceQ, stateQ, obsQ, tgtQ, g_score, g_targets_collected,
                   g_last_hit_step, g_step_counter, wd_warning_active,
                   g_obstacles, g_targets, bSig, hbCount, lastBatch,
                   lastAccepted, dVars, prodVars, now, wVars>>
    /\ UNCHANGED <<cfgQ, probe>>

\* (mutant) the heartbeat is signalled only for ticks read while RUNNING
Heartbeats_RunningOnly(isPaused) == IF isPaused THEN 0 ELSE 1

\* if (pid_W > 0) kill(pid_W, SIGUSR1): the signals one complete tick sends
Heartbeats(isPaused) == 1

\* check_target_hits: (*score)++ and (*targets_collected)++ once for each
\* target hit
ScoreGain_PerTick(hits) == Cardinality(hits) + 1
ScoreGain(hits) == Cardinality(hits)

\* if (wd_warning_active) { wd_warning_active = 0; ... } on a complete read
ClearsWarning_RunningOnly(isPaused) == ~isPaused
ClearsWarning(isPaused) == TRUE

\* if (!paused): the step counter, the hit test and the ageing of a tick
TickAdvances_Always(isPaused) == TRUE
TickAdvances(isPaused) == ~isPaused

\* if (FD_ISSET(fd_from_d, &rfds)) { ... }: what the handler does to B and
\* its pipes when its read is of one of the given sizes
BTickOf(sizes) ==
    /\ bPc = "b_st"
    /\ IF stateQ = <<>>
         THEN \* read() returns 0: the dynamics process ended
              /\ bPc' = "b_exit"
              /\ bExitCause' = "d_eof"
              /\ UNCHANGED <<stateQ, bOut, bNext, cur_state, g_score,
                             g_targets_collected, g_last_hit_step,
                             g_step_counter, wd_warning_active, g_obstacles,
                             g_targets, hbCount, lastBatch, lastAccepted,
                             rfds>>
         ELSE \E n \in sizes :
              IF n = "partial"
                THEN \* "Partial read from D": continue, to the top of the
                     \* loop
                     /\ stateQ' = Tail(stateQ)
                     /\ bPc' = "b_top"
                     /\ rfds' = {}
                     /\ UNCHANGED <<bOut, bNext, cur_state, g_score,
                                    g_targets_collected, g_last_hit_step,
                                    g_step_counter, wd_warning_active,
                                    g_obstacles, g_targets, hbCount,
                                    lastBatch, lastAccepted, bExitCause>>
                ELSE
              LET st    == Head(stateQ)
                  step  == IF ~TickAdvances(paused) THEN g_step_counter ELSE g_step_counter + 1
                  hits  == IF ~TickAdvances(paused) THEN {} ELSE HitSet(st, g_targets)
                  tgts  == IF ~TickAdvances(paused) THEN g_targets
                           ELSE Age(check_target_hits(st, g_targets))
                  obs   == IF ~TickAdvances(paused) THEN g_obstacles ELSE Age(g_obstacles)
              IN /\ stateQ' = Tail(stateQ)
                 /\ hbCount' = hbCount + Heartbeats(paused)
                 /\ wd_warning_active' = IF ClearsWarning(paused) THEN 0
                                          ELSE wd_warning_active
                 /\ cur_state' = st
                 /\ g_step_counter' = step
                 /\ g_score' = g_score + ScoreGain(hits)
                 /\ g_targets_collected' = g_targets_collected + ScoreGain(hits)
                 /\ g_last_hit_step' = IF hits # {} THEN step ELSE g_last_hit_step
                 /\ g_targets' = tgts
                 /\ g_obstacles' = obs
                 /\ bOut' = <<TotalForce(cur_force, st, obs)>>
                 /\ bPc' = "b_write"
                 /\ bNext' = HandlerFrom(3, rfds)
                 /\ lastBatch' = IF ~TickAdvances(paused) THEN lastBatch ELSE "none"
                 /\ lastAccepted' = IF ~TickAdvances(paused) THEN lastAccepted ELSE 0
                 /\ UNCHANGED <<bExitCause, rfds>>
    /\ UNCHANGED <<keyQ, forceQ, obsQ, tgtQ, cur_force, paused, bSig,
                   keysIgnored, dVars, prodVars>>
    /\ UNCHANGED <<cfgQ, probe>>

\* the tick handler of the program: the state pipe carries whole messages
BTickCore == BTickOf(FullRead)

\* the tick handler where the watchdog's reaction to the heartbeat is
\* modelled apart (on_sigusr1, or not at all)
BTick ==
    /\ BTickCore
    /\ UNCHANGED <<now, wVars>>

\* if (paused): a batch that was read is ignored
BatchIgnored_Never(isPaused) == FALSE
BatchIgnored(isPaused) == isPaused

\* values that the part of the local msg which a short read() has not
\* written may hold (the variable is not initialised): two of them
Uninitialised ==
    { [x |-> 0, y |-> 0, life_steps |-> 0],
      [x |-> 14 * Scale, y |-> 0, life_steps |-> 2] }

\* the local msg after a read() of size n of message m: a short read has
\* filled the count, and the entries hold what was there before
Received(n, m, g) ==
    IF n = "partial" THEN [count |-> m.count, ent |-> [i \in DOMAIN m.ent |-> g]]
                     ELSE m

\* if (FD_ISSET(fd_obs, &rfds)) { ... } when its read is of one of the
\* given sizes: every n > 0 takes the else branch
BObstaclesOf(sizes) ==
    /\ bPc = "b_obs"
    /\ LET next == HandlerFrom(4, rfds)
       IN IF obsQ = <<>>
            THEN \* n <= 0: a message is shown and the iteration goes on
                 /\ bPc' = next
                 /\ rfds' = RfdsAt(next)
                 /\ UNCHANGED <<obsQ, g_obstacles, bExitCause, lastBatch,
                                lastAccepted>>
            ELSE /\ obsQ' = Tail(obsQ)
                 /\ bPc' = next
                 /\ rfds' = RfdsAt(next)
                 /\ UNCHANGED bExitCause
                 /\ IF BatchIgnored(paused)
                      THEN UNCHANGED <<g_obstacles, lastBatch, lastAccepted>>
                      ELSE \E n \in sizes, g \in Uninitialised :
                           LET r == ProcessObstacleBatch(g_obstacles,
                                        Received(n, Head(obsQ), g))
                           IN /\ g_obstacles' = r.arr
                              /\ lastAccepted' = r.accepted
                              /\ lastBatch' = "obs"
    /\ UNCHANGED <<keyQ, forceQ, stateQ, tgtQ, bOut, bNext, cur_force,
                   cur_state, paused, g_score, g_targets_collected,
                   g_last_hit_step, g_step_counter, wd_warning_active,
                   g_targets, bSig, hbCount, keysIgnored, dVars, prodVars,
                   now, wVars>>
    /\ UNCHANGED <<cfgQ, probe>>

BObstacles == BObstaclesOf(FullRead)

\* if (FD_ISSET(fd_tgt, &rfds)) { ... } when its read is of one of the
\* given sizes
BTargetsOf(sizes) ==
    /\ bPc = "b_tgt"
    /\ bPc' = "b_top"
    /\ rfds' = {}
    /\ IF tgtQ = <<>>
         THEN UNCHANGED <<tgtQ, g_targets, lastBatch, lastAccepted>>
         ELSE /\ tgtQ' = Tail(tgtQ)
              /\ IF BatchIgnored(paused)
                   THEN UNCHANGED <<g_targets, lastBatch, lastAccepted>>
                   ELSE \E n \in sizes, g \in Uninitialised :
                        LET r == ProcessTargetBatch(g_targets,
                                     Received(n, Head(tgtQ), g))
                        IN /\ g_targets' = r.arr
                           /\ lastAccepted' = r.accepted
                           /\ lastBatch' = "tgt"
    /\ UNCHANGED <<keyQ, forceQ, stateQ, obsQ, bOut, bNext, cur_force,
                   cur_state, paused, g_score, g_targets_collected,
                   g_last_hit_step, g_step_counter, wd_warning_active,
                   g_obstacles, bSig, hbCount, keysIgnored, bExitCause, dVars,
                   prodVars,
                   now, wVars>>
    /\ UNCHANGED <<cfgQ, probe>>

BTargets == BTargetsOf(FullRead)

\* after the loop: endwin(); close(fd_kb); close(fd_to_d); close(fd_from_d);
\* exit(EXIT_SUCCESS)
BExit ==
    /\ bPc = "b_exit"
    /\ bPc' = "b_done"
    /\ rfds' = {}
    /\ UNCHANGED <<chanVars, bOut, bNext, bData, bSig, bObs, dVars, prodVars,
                   now, wVars>>
    /\ UNCHANGED <<cfgQ, probe>>

\* the part of B's loop that every run goes through: flags, select(), the
\* tick handler and the write to D
BLoopStep ==
    \/ BWrite
    \/ BTop
    \/ BSelect
    \/ BTick

\* one step of run_server_process
BStep ==
    \/ BLoopStep
    \/ BKey
    \/ BObstacles
    \/ BTargets
    \/ BExit

\* (mutant) D enters its loop holding one force_step to the right
InitD_Pushed ==
    /\ dPc = "d_read"
    /\ d_f = [Fx |-> force_step * Scale, Fy |-> 0, reset |-> 0]
    /\ d_s = ZeroState
    /\ dTicks = 0
    /\ dCause = "none"

\* D when it enters its loop: zero state, zero force
InitD ==
    /\ dPc = "d_read"
    /\ d_f = ZeroForce
    /\ d_s = ZeroState
    /\ dTicks = 0
    /\ dCause = "none"

\* if (new_f.reset != 0) { s.x = 0.0; s.y = 0.0; s.vx = 0.0; s.vy = 0.0; }
ResetBase_Keep(new_f, s) == s
ResetBase(new_f, s) == IF new_f.reset # 0 THEN ZeroState ELSE s

\* (mutant) a tick without a new command falls back to zero force
RetainedForce_Zero(f) == ZeroForce

\* n < 0 with errno EAGAIN: f is not assigned, the integration uses the
\* force of the last complete read
RetainedForce(f) == f

\* (mutant) a read empties the pipe
AfterRead_Drained(q) == <<>>

\* int n = read(force_fd, &new_f, sizeof(new_f)): one command leaves the
\* pipe
AfterRead(q) == Tail(q)

\* the first half of an iteration of D: the non-blocking read of one
\* command, of one of the given sizes, then the integration step
DReadOf(sizes) ==
    /\ dPc = "d_read"
    /\ dTicks < MaxTicks \/ BGone
    /\ IF forceQ # <<>>
         THEN \E n \in sizes :
              IF n = "partial"
                THEN \* "Partial read (%d bytes) on force pipe.": f is not
                     \* assigned
                     /\ forceQ' = AfterRead(forceQ)
                     /\ d_s' = Integrate(d_f, d_s)
                     /\ dPc' = "d_write"
                     /\ dTicks' = dTicks + 1
                     /\ UNCHANGED <<d_f, dCause>>
                ELSE LET new_f == Head(forceQ)
                         base  == ResetBase(new_f, d_s)
                         f     == [new_f EXCEPT !.reset = 0]
                     IN /\ forceQ' = AfterRead(forceQ)
                        /\ d_f' = f
                        /\ d_s' = Integrate(f, base)
                        /\ dPc' = "d_write"
                        /\ dTicks' = dTicks + 1
                        /\ UNCHANGED dCause
         ELSE IF BGone
           THEN \* read() returns 0: "EOF on force pipe, exiting."
                /\ dPc' = "d_done"
                /\ dCause' = "force_eof"
                /\ UNCHANGED <<forceQ, d_f, d_s, dTicks>>
           ELSE \* EAGAIN: the previous force is kept
                /\ d_f' = RetainedForce(d_f)
                /\ d_s' = Integrate(RetainedForce(d_f), d_s)
                /\ dPc' = "d_write"
                /\ dTicks' = dTicks + 1
                /\ UNCHANGED <<forceQ, dCause>>
    /\ UNCHANGED <<keyQ, stateQ, obsQ, tgtQ, bCtl, bData, bSig, bObs,
                   prodVars, now, wVars>>
    /\ UNCHANGED <<cfgQ, probe>>

\* the program's pipes carry whole messages: every read of a message is
\* complete
DRead == DReadOf(FullRead)

\* (mutant) a failed write of the state is ignored and the loop goes on
StateWriteFailedPc_Continue == "d_read"

\* if (write(state_fd, &s, sizeof(s)) == -1) { perror(...); break; }
StateWriteFailedPc == "d_done"

\* the second half: the blocking write of the state, then nanosleep(dt)
DWrite ==
    /\ dPc = "d_write"
    /\ IF BGone
         THEN \* the read end is closed: the write fails
              /\ dPc' = StateWriteFailedPc
              /\ dCause' = "write_fail"
              /\ UNCHANGED stateQ
         ELSE /\ Len(stateQ) < StateCap
              /\ stateQ' = Append(stateQ, d_s)
              /\ dPc' = "d_read"
              /\ UNCHANGED dCause
    /\ UNCHANGED <<keyQ, forceQ, obsQ, tgtQ, d_f, d_s, dTicks, bCtl, bData,
                   bSig, bObs, prodVars, now, wVars>>
    /\ UNCHANGED <<cfgQ, probe>>

\* one step of run_dynamics_process
DStep ==
    \/ DRead
    \/ DWrite

\* run_keyboard_process: one key is read from the terminal and written to
\* B; 'q' ends the process after it is sent
ISend(key) ==
    /\ iPc = "i_run"
    /\ keysSent < MaxKeys
    /\ IF BGone
         THEN iPc' = "i_done" /\ UNCHANGED <<keyQ, keysSent>>
         ELSE /\ Len(keyQ) < KeyCap
              /\ keyQ' = Append(keyQ, key)
              /\ keysSent' = keysSent + 1
              /\ iPc' = IF key = "q" THEN "i_done" ELSE "i_run"
    /\ UNCHANGED <<forceQ, stateQ, obsQ, tgtQ, bCtl, bData, bSig, bObs, dVars,
                   oPc, tPc, batchesSent, now, wVars>>
    /\ UNCHANGED <<cfgQ, probe>>

\* getchar() returns EOF: the process closes its pipe and exits
IEof ==
    /\ iPc = "i_run"
    /\ iPc' = "i_done"
    /\ UNCHANGED <<chanVars, bCtl, bData, bSig, bObs, dVars, keysSent, oPc,
                   tPc, batchesSent, now, wVars>>
    /\ UNCHANGED <<cfgQ, probe>>

\* the candidates of the model's batches: two that are closer to each
\* other than the spawn clearance, and one far from both
Candidates ==
    { [x |-> 20 * Scale, y |-> 0, life_steps |-> 2],
      [x |-> 25 * Scale, y |-> 0, life_steps |-> 2],
      [x |-> 0, y |-> 30 * Scale, life_steps |-> 2] }

\* the entries behind the first two: a row of points 8 apart
Filler(i) == [x |-> (8 * i - 64) * Scale, y |-> -30 * Scale, life_steps |-> 1]

\* a batch message: its count and its entries (those beyond count are
\* never read and are left at the filler)
Batch(count, a, b) ==
    [count |-> count,
     ent |-> [i \in 1..NUM_OBSTACLES |->
                IF i = 1 /\ count >= 1 THEN a
                ELSE IF i = 2 /\ count >= 2 THEN b
                ELSE Filler(i)]]

Batches ==
    {Batch(c, a, b) : c \in {-1, 0, 1, 2, NUM_OBSTACLES + 1},
                      a \in Candidates, b \in Candidates}

\* run_obstacle_process writes one ObstacleSetMsg
OSend(msg) ==
    /\ oPc = "o_run"
    /\ batchesSent < MaxBatches
    /\ IF BGone
         THEN oPc' = "o_done" /\ UNCHANGED <<obsQ, batchesSent>>
         ELSE /\ Len(obsQ) < BatchCap
              /\ obsQ' = Append(obsQ, msg)
              /\ batchesSent' = batchesSent + 1
              /\ UNCHANGED oPc
    /\ UNCHANGED <<keyQ, forceQ, stateQ, tgtQ, bCtl, bData, bSig, bObs, dVars,
                   iPc, keysSent, tPc, now, wVars>>
    /\ UNCHANGED <<cfgQ, probe>>

\* run_target_process writes one TargetSetMsg
TSend(msg) ==
    /\ tPc = "t_run"
    /\ batchesSent < MaxBatches
    /\ IF BGone
         THEN tPc' = "t_done" /\ UNCHANGED <<tgtQ, batchesSent>>
         ELSE /\ Len(tgtQ) < BatchCap
              /\ tgtQ' = Append(tgtQ, msg)
              /\ batchesSent' = batchesSent + 1
              /\ UNCHANGED tPc
    /\ UNCHANGED <<keyQ, forceQ, stateQ, obsQ, bCtl, bData, bSig, bObs, dVars,
                   iPc, keysSent, oPc, now, wVars>>
    /\ UNCHANGED <<cfgQ, probe>>

(***************************************************************************)
(* Part 5.  Specifications                                                 *)
(***************************************************************************)

\* the system as main() leaves it: pipes empty, every process started
InitSysAt(pc) ==
    /\ keyQ = <<>>
    /\ forceQ = <<>>
    /\ stateQ = <<>>
    /\ obsQ = <<>>
    /\ tgtQ = <<>>
    /\ cfgQ = <<>>
    /\ InitBAt(pc)
    /\ InitD
    /\ iPc = "i_run"
    /\ keysSent = 0
    /\ oPc = "o_run"
    /\ tPc = "t_run"
    /\ batchesSent = 0

\* the configuration record has been written and read
InitSys == InitSysAt("b_write")

Init ==
    /\ now = 0
    /\ InitW
    /\ InitSys
    /\ probe = NoProbe

\* the watchdog with its clock; B's heartbeats arrive at arbitrary times
InitWatchdog == Init

NextW ==
    \/ Tick
    \/ on_sigusr1
    \/ WStep

SpecW == InitWatchdog /\ [][NextW]_vars

\* W is a process of its own: its loop is scheduled again and again.
SpecWFair == SpecW /\ WF_vars(WStep)

\* W's SIGUSR2 reaches B at some moment before the broadcast
on_watchdog_warningCore ==
    /\ wPc = "w_flag"
    /\ g_wd_warning_flag = 0
    /\ ~BGone
    /\ WarningDelivered
    /\ UNCHANGED <<chanVars, rfds, bOut, bNext, bData, g_wd_stop, bObs, dVars,
                   prodVars, now, wVars>>
    /\ UNCHANGED <<cfgQ, probe>>

on_watchdog_warning ==
    /\ on_watchdog_warningCore
    /\ UNCHANGED bPc

\* W's kill stage finds elapsed >= kill_sec (the timing of this decision is
\* the subject of SpecW)
WExpires ==
    /\ wPc = "w_flag"
    /\ wPc' = "w_term"
    /\ elapsed' = KILL_SEC
    /\ UNCHANGED <<now, g_got_beat, g_last_beat_ts, warned, wTermIdx, wSent,
                   epWarns, epSeen, beatInTime, lastStall, sysVars>>
    /\ UNCHANGED <<cfgQ, probe>>

\* the batch the whole-system specification lets a generator send: one
\* candidate, far from everything
PlainBatches == {Batch(1, c, c) : c \in {k \in Candidates : k.x = 0}}

\* the whole system: B and D exchanging commands and states, the key
\* source, the generators (one batch altogether), and W's signals
Next ==
    \/ BStep
    \/ DStep
    \/ \E key \in Keys : ISend(key)
    \/ IEof
    \/ (batchesSent = 0 /\ \E msg \in PlainBatches : OSend(msg))
    \/ (batchesSent = 0 /\ \E msg \in PlainBatches : TSend(msg))
    \/ on_watchdog_warning
    \/ WExpires
    \/ WBroadcast

Spec == Init /\ [][Next]_vars

\* the exchange between B and D under a key source of any speed
NextBD ==
    \/ BLoopStep
    \/ BKey
    \/ BExit
    \/ DStep
    \/ \E key \in Keys : ISend(key)
    \/ IEof

SpecBD == Init /\ [][NextBD]_vars

\* D is a process of its own: whenever it can take a step it eventually does
SpecBDFair == SpecBD /\ WF_vars(DStep)

\* B in RUNNING mode fed with batches of every shape (D has not been
\* scheduled yet: no tick arrives)
NextBatch ==
    \/ BWrite
    \/ BTop
    \/ BSelect
    \/ BObstacles
    \/ BTargets
    \/ \E msg \in Batches : OSend(msg)
    \/ \E msg \in Batches : TSend(msg)

SpecBatch == Init /\ [][NextBatch]_vars

(***************************************************************************)
(* Claims about the watchdog.                                              *)
(***************************************************************************)

\* W is broadcasting, or has broadcast, the termination signal
WTerminating == wPc \in {"w_term", "w_done"}

\* the targets of the SIGTERMs sent so far, in order
TermTargets ==
    LET idx == {i \in 1..Len(wSent) : wSent[i].sig = "SIGTERM"}
        f[i \in 0..Len(wSent)] ==
            IF i = 0 THEN <<>>
            ELSE IF i \in idx THEN Append(f[i - 1], wSent[i].to) ELSE f[i - 1]
    IN f[Len(wSent)]

\* C1: a heartbeat delivered to W while the time elapsed since the last
\* recorded heartbeat is below kill_sec prevents the termination broadcast
\* for that stall: W never broadcasts while such a heartbeat is delivered
\* and not yet recorded.
C1_BeatInTimePreventsKill == beatInTime => ~WTerminating

\* C2 (as stated): every stall episode that lasts >= warn_sec but < kill_sec
\* produces exactly one warning.
C2_ExactlyOneWarningInWindow ==
    (lastStall.len >= WARN_SEC /\ lastStall.len < KILL_SEC) => lastStall.warns = 1

\* C2 (amended): in every stall episode W warns at most once; it warns
\* exactly once when one of its polls in that episode measures an elapsed
\* time >= warn_sec and not at all otherwise; it never warns while the
\* elapsed time is < warn_sec; a finished episode had at most one warning,
\* and only if it lasted >= warn_sec.
C2_OneWarningPerPolledStall ==
    /\ epWarns <= 1
    /\ epWarns = (IF epSeen THEN 1 ELSE 0)
    /\ epWarns = 1 => now - g_last_beat_ts >= WARN_SEC
    /\ lastStall.warns <= 1
    /\ lastStall.warns = 1 => lastStall.len >= WARN_SEC

\* two successive stall episodes, each with its own single warning
C2_Witness == lastStall.warns = 1 /\ epWarns = 1 /\ ~WTerminating

\* no heartbeat recorded for >= kill_sec, and none pending
Stalled == now - g_last_beat_ts >= KILL_SEC /\ g_got_beat = 0

\* C3: if W records no heartbeat for >= kill_sec then, its loop being
\* scheduled fairly, W eventually broadcasts termination and stops (unless a
\* heartbeat arrives first); and W never broadcasts while the elapsed time it
\* measured is < kill_sec.
C3_KillAfterStall ==
    /\ Stalled ~> (wPc = "w_done" \/ g_got_beat = 1)
    /\ [](WTerminating => elapsed >= KILL_SEC)

\* W stopped after a stall that it had warned about
C3_Witness == wPc = "w_done" /\ elapsed >= KILL_SEC /\ warned = 1

\* C4: the termination broadcast signals B first and then I, D, O, T, each
\* exactly once; the SIGTERMs are the last signals W ever sends, and W halts
\* after the fifth.
C4_BroadcastOrder ==
    LET t == TermTargets
        n == Len(wSent)
        k == Len(t)
    IN /\ k <= 5
       /\ \A i \in 1..n : wSent[i].sig = "SIGTERM" <=> i > n - k
       /\ k >= 1 => t[1] = "B"
       /\ \A i, j \in 1..k : t[i] = t[j] => i = j
       /\ \A i \in 2..k : t[i] \in {"I", "D", "O", "T"}
       /\ k >= 1 => WTerminating
       /\ wPc = "w_done" <=> k = 5

\* the full broadcast has happened, after a warning
C4_Witness == wPc = "w_done" /\ Len(wSent) = 6

(***************************************************************************)
(* Claims about the exchange between B and D.                              *)
(***************************************************************************)

\* B is inside write(fd_to_d) and the force pipe is full
BBlocked == bPc = "b_write" /\ ~DGone /\ Len(forceQ) >= ForceCap

\* D is inside write(state_fd) and the state pipe is full
DBlocked == dPc = "d_write" /\ ~BGone /\ Len(stateQ) >= StateCap

\* C5: whatever the capacities of the pipes and the speeds of the key
\* source, B and D, the system is never in a state where B is blocked
\* sending a command to D while D is blocked sending a state to B.
C5_NoMutualBlock == ~(BBlocked /\ DBlocked)

(***************************************************************************)
(* Claims about B's event loop.                                            *)
(***************************************************************************)

\* C6: B signals exactly one heartbeat in the step in which it reads a
\* complete DroneState from the state pipe, in RUNNING and in PAUSED mode
\* alike, and none in any other step (keys, batches, wait timeouts,
\* signals, steps of other processes).
C6_HeartbeatPerTick ==
    [][hbCount' = hbCount + (IF Len(stateQ') < Len(stateQ) THEN 1 ELSE 0)]_vars

\* a tick was read, and its heartbeat signalled, while B was paused: the
\* heartbeats outnumber the steps counted in RUNNING mode
C6_Witness == paused /\ hbCount > g_step_counter

\* B is about to observe one of the four events that end its loop
ExitObserved ==
    \/ bPc = "b_kb" /\ keyQ # <<>> /\ Head(keyQ) = "q"
    \/ bPc = "b_kb" /\ keyQ = <<>>
    \/ bPc = "b_st" /\ stateQ = <<>>
    \/ bPc = "b_top" /\ g_wd_stop # 0

\* C7: a step of B leaves the event loop exactly when B observes the quit
\* key, end-of-stream on the key pipe, end-of-stream on the state pipe, or
\* the flag of the watchdog's termination signal; having left the loop B
\* closes its descriptors and exits, and it exits in no other way.  No
\* other event ends the loop.  (B's process can also be ended inside a
\* handler by a write to a D that is gone; that happens only after the
\* termination signal was delivered to B.)
C7_LoopEndsOnExitEvents ==
    /\ [][/\ (bPc' # bPc /\ ExitObserved) <=> (bPc' = "b_exit" /\ bPc # "b_exit")
          /\ (bPc' = "b_done" /\ bPc # "b_done") <=> (bPc = "b_exit" /\ bPc' # bPc)]_vars
    /\ [](bPc \in {"b_exit", "b_done"} <=> bExitCause # "none")
    /\ [](bPc = "b_killed" => g_wd_stop # 0)

\* B has left its loop because D's end of the state pipe was closed, and
\* has exited
C7_Witness == bPc = "b_done" /\ bExitCause = "d_eof"

(***************************************************************************)
(* Claims about the end of D.                                              *)
(***************************************************************************)

\* C8 (as stated): once B has exited, D terminates after consuming the
\* commands still queued: when both are gone the force pipe is empty.
C8_QueuedCommandsConsumed == (BGone /\ DGone) => forceQ = <<>>

\* C8 (amended): D ends its loop on end-of-stream on the force pipe or on a
\* failed write to the state pipe, and (no signal being sent) on nothing
\* else; both happen only when B has already left its loop and closed its
\* descriptors, so B is not there to read the end-of-stream of the state
\* pipe; end-of-stream is read only when the force pipe is drained, whereas
\* a failed write ends D at once, whatever is still queued; a D that has
\* ended ticks no more; and once B has exited D eventually terminates.
C8_DEndsAfterB ==
    /\ [](DGone => (dCause \in {"force_eof", "write_fail"} /\ BGone))
    /\ []((DGone /\ dCause = "force_eof") => forceQ = <<>>)
    /\ [][(BGone /\ dPc = "d_write" /\ dPc' # dPc) => dPc' = "d_done"]_vars
    /\ [][DGone => (DGone' /\ UNCHANGED <<d_s, dTicks, stateQ, forceQ>>)]_vars
    /\ (BGone ~> DGone)

\* B has exited and D's next write of a state failed while a command was
\* still queued
C8_Witness == BGone /\ DGone /\ dCause = "write_fail" /\ forceQ # <<>>

(***************************************************************************)
(* Claims about the batches.                                               *)
(***************************************************************************)

\* slots 1..n of arr are the active ones; every other slot is inactive
\* with lifetime 0
ExactlyFirstActive(arr, n) ==
    /\ \A i \in DOMAIN arr :
          IF i <= n THEN arr[i].active # 0
                    ELSE arr[i].active = 0 /\ arr[i].life_steps = 0
    /\ Cardinality({i \in DOMAIN arr : arr[i].active # 0}) <= n

\* C9: after B has processed an obstacle or target batch in RUNNING mode
\* (any count, any candidates), the active entries of the array are exactly
\* the first "accepted" slots, every other slot is inactive with lifetime
\* 0, and "accepted" does not exceed the capacity.
C9_BatchCapacity ==
    /\ lastBatch = "obs" =>
          /\ lastAccepted \in 0..NUM_OBSTACLES
          /\ ExactlyFirstActive(g_obstacles, lastAccepted)
    /\ lastBatch = "tgt" =>
          /\ lastAccepted \in 0..NUM_TARGETS
          /\ ExactlyFirstActive(g_targets, lastAccepted)

\* a short obstacle batch was processed after a longer one: slot 2 still
\* holds the position of an earlier obstacle, and is inactive
C9_Witness ==
    /\ lastBatch = "obs"
    /\ lastAccepted < 2
    /\ g_obstacles[2].x # 0
    /\ g_obstacles[2].active = 0

\* C10: after B has processed a batch in RUNNING mode, no entity it
\* activated from the batch lies within the spawn clearance of an active
\* entity of the other kind.
C10_NoCrossKindOverlap ==
    /\ lastBatch = "obs" =>
          \A i \in 1..lastAccepted :
              ~too_close_to_any_pointlike(g_obstacles[i].x, g_obstacles[i].y,
                                          g_targets, SpawnClearance)
    /\ lastBatch = "tgt" =>
          \A i \in 1..lastAccepted :
              ~too_close_to_any_pointlike(g_targets[i].x, g_targets[i].y,
                                          g_obstacles, SpawnClearance)

(***************************************************************************)
(* B's validation of one candidate, as a function of the candidate: the    *)
(* batch handlers applied to a message that holds a single candidate drawn *)
(* from a grid over the whole world, walls included.                       *)
(***************************************************************************)

\* coordinates on and around the inner box of the wall margin
ProbeCoords == {-48, -40, 0, 40, 48}

ProbeBatches ==
    { Batch(1, [x |-> px * Scale, y |-> py * Scale, life_steps |-> 2],
               [x |-> px * Scale, y |-> py * Scale, life_steps |-> 2]) :
        px \in ProbeCoords, py \in ProbeCoords }

\* the state after construction, with one message waiting on a batch pipe
InitValidate ==
    /\ now = 0
    /\ InitW
    /\ keyQ = <<>>
    /\ forceQ = <<>>
    /\ stateQ = <<>>
    /\ cfgQ = <<>>
    /\ probe = NoProbe
    /\ \E msg \in ProbeBatches :
          \/ obsQ = <<msg>> /\ tgtQ = <<>>
          \/ obsQ = <<>> /\ tgtQ = <<msg>>
    /\ InitB
    /\ InitD
    /\ iPc = "i_run"
    /\ keysSent = 0
    /\ oPc = "o_run"
    /\ tPc = "t_run"
    /\ batchesSent = 1

NextValidate ==
    \/ BWrite
    \/ BTop
    \/ BSelect
    \/ BObstacles
    \/ BTargets

SpecValidate == InitValidate /\ [][NextValidate]_vars

\* the entity at (x, y) keeps the distance margin (in fine units) from
\* each of the four walls at +/- world_half
KeepsWallMargin(x, y, margin) ==
    /\ world_half * Scale - Abs(x) >= margin
    /\ world_half * Scale - Abs(y) >= margin

\* the wall margin: world_half * 0.20
WallMargin == (world_half * 20 * Scale) \div 100

NearCandidates ==
    { [x |-> 3 * Scale, y |-> 0, life_steps |-> 2],
      [x |-> 14 * Scale, y |-> 0, life_steps |-> 2] }

NearBatches == {Batch(1, c, c) : c \in NearCandidates}

NextRun ==
    \/ BStep
    \/ DStep
    \/ \E key \in Keys : ISend(key)
    \/ IEof
    \/ (batchesSent = 0 /\ \E msg \in NearBatches : OSend(msg))
    \/ (batchesSent = 0 /\ \E msg \in NearBatches : TSend(msg))
    \/ on_watchdog_warning

SpecRun == Init /\ [][NextRun]_vars

\* B's handler of the obstacle pipe (kind = "obs") or of the target pipe
\* takes its step and finds a batch
BReadsBatch(kind) ==
    /\ bPc = (IF kind = "obs" THEN "b_obs" ELSE "b_tgt")
    /\ bPc' # bPc
    /\ (IF kind = "obs" THEN obsQ ELSE tgtQ) # <<>>

\* C12: while PAUSED, a batch that arrives is taken off its pipe and
\* dropped: the obstacle array, the target array, the score and the Mode
\* stay as they were.
C12_PausedBatchDiscarded ==
    [][ /\ (paused /\ BReadsBatch("obs")) =>
              /\ obsQ' = Tail(obsQ)
              /\ UNCHANGED <<g_obstacles, g_targets, g_score,
                             g_targets_collected, g_last_hit_step, paused>>
        /\ (paused /\ BReadsBatch("tgt")) =>
              /\ tgtQ' = Tail(tgtQ)
              /\ UNCHANGED <<g_obstacles, g_targets, g_score,
                             g_targets_collected, g_last_hit_step, paused>>
      ]_vars

\* a batch was sent and read, no tick was processed in RUNNING mode, and
\* yet no entity is active: the batch was read while PAUSED
C12_Witness ==
    /\ paused
    /\ batchesSent = 1
    /\ obsQ = <<>>
    /\ tgtQ = <<>>
    /\ g_step_counter = 0
    /\ \A i \in 1..NUM_OBSTACLES : g_obstacles[i].active = 0
    /\ \A i \in 1..NUM_TARGETS : g_targets[i].active = 0

\* B's key handler takes its step and finds a directional key or the brake
BReadsMoveKey ==
    /\ bPc = "b_kb"
    /\ bPc' # bPc
    /\ keyQ # <<>>
    /\ Head(keyQ) \in {"d", "f"}

\* C13: while PAUSED, a directional key or the brake is read and changes
\* neither the user-force accumulator nor the Mode.
C13_PausedKeysIgnored ==
    [][ (paused /\ BReadsMoveKey) =>
            /\ keyQ' = Tail(keyQ)
            /\ UNCHANGED <<cur_force, paused>> ]_vars

\* B has read a directional key or the brake while PAUSED and is PAUSED
C13_Witness ==
    /\ paused
    /\ keysIgnored > 0
    /\ keyQ = <<>>

\* B's tick handler takes its step and finds a state message
BReadsTick ==
    /\ bPc = "b_st"
    /\ bPc' # bPc
    /\ stateQ # <<>>

\* C14: while PAUSED, a tick sets B's mirror of the drone state to the
\* state received and leaves the step counter, every obstacle and target,
\* the score, the collected count and the last-hit step as they were.
C14_PausedTickFreezesWorld ==
    [][ (paused /\ BReadsTick) =>
            /\ cur_state' = Head(stateQ)
            /\ UNCHANGED <<g_step_counter, g_obstacles, g_targets, g_score,
                           g_targets_collected, g_last_hit_step>> ]_vars

\* a tick was handled while PAUSED with an active target within the hit
\* radius of the drone, and the target is still active
C14_Witness ==
    /\ paused
    /\ hbCount > g_step_counter
    /\ HitSet(cur_state, g_targets) # {}
    /\ g_score = 0

\* B's key handler takes its step and finds the reset key
BReadsReset ==
    /\ bPc = "b_kb"
    /\ bPc' # bPc
    /\ keyQ # <<>>
    /\ Head(keyQ) = "O"

\* C15: on a reset key, in either Mode, B zeroes its mirror and the
\* user-force accumulator, sets the Mode to RUNNING and hands exactly one
\* command with the reset flag set to the pipe to D; the initial command
\* and every command prepared by any other step has the flag clear, and
\* what is written to the pipe is the command prepared.
C15_ResetKey ==
    /\ bOut[1].reset = 0
    /\ [][ BReadsReset =>
              /\ cur_state' = ZeroState
              /\ cur_force' = ZeroForce
              /\ ~paused'
              /\ bPc' = "b_write"
              /\ Len(bOut') = 1
              /\ bOut'[1].reset = 1 ]_vars
    /\ [][ (bOut' # bOut /\ bOut' # <<>> /\ ~BReadsReset) =>
              /\ Len(bOut') = 1
              /\ bOut'[1].reset = 0 ]_vars
    /\ [][ forceQ' # forceQ =>
              \/ forceQ # <<>> /\ forceQ' = Tail(forceQ)
              \/ forceQ' = Append(forceQ, bOut[1]) /\ bOut' = <<>> ]_vars

\* a reset was read after a tick in PAUSED mode, with the drone away from
\* the origin, and its command is about to be written
C15_Witness ==
    /\ bPc = "b_write"
    /\ bOut[1].reset = 1
    /\ hbCount > g_step_counter
    /\ d_s # ZeroState
    /\ cur_state = ZeroState /\ cur_force = ZeroForce /\ ~paused

\* D takes a command with the reset flag set off the force pipe
DReadsReset ==
    /\ dPc = "d_read"
    /\ forceQ # <<>>
    /\ Head(forceQ).reset # 0
    /\ forceQ' = Tail(forceQ)

\* C16: whatever D's state was, the state D computes on the tick on which
\* it reads a command with the reset flag set, the one it then writes to
\* B, is {0, 0, 0, 0}.
C16_ResetYieldsZeroState ==
    [][ DReadsReset => d_s' = ZeroState ]_vars

\* C16 (amended): whatever D's state was, the state D computes on the tick
\* on which it reads a command with the reset flag set is one integration
\* step from {0, 0, 0, 0} under the force of that command; it is
\* {0, 0, 0, 0} when that force is zero.
C16_ResetYieldsStepFromZero ==
    [][ DReadsReset =>
          LET new_f == Head(forceQ)
          IN /\ d_s' = Integrate(new_f, ZeroState)
             /\ (new_f.Fx = 0 /\ new_f.Fy = 0) => d_s' = ZeroState ]_vars

\* D is about to write the state of a reset tick: its previous state, still
\* on the pipe, was not zero, and the new one is a step from zero under a
\* force that is not zero
C16_Witness ==
    /\ dPc = "d_write"
    /\ stateQ # <<>>
    /\ Head(stateQ) # ZeroState
    /\ d_f.Fx # 0
    /\ d_s = Integrate(d_f, ZeroState)
    /\ d_s # Integrate(d_f, Head(stateQ))
    /\ d_s # ZeroState

\* C17: the user-force accumulator changes only when B's key handler reads
\* a key: a directional key in RUNNING mode adds one force_step along its
\* direction; the brake, the reset and the entry into PAUSED zero it.  No
\* write to D, tick, batch or watchdog signal changes it.
C17_AccumulatorOnlyByKeys ==
    [][ cur_force' # cur_force =>
          /\ bPc = "b_kb"
          /\ bPc' # bPc
          /\ keyQ # <<>>
          /\ LET key == Head(keyQ)
                 d   == direction_from_key(key)
             IN \/ /\ key = "f"
                   /\ ~paused
                   /\ cur_force'.Fx = cur_force.Fx + d[1] * force_step * Scale
                   /\ cur_force'.Fy = cur_force.Fy + d[2] * force_step * Scale
                \/ /\ key \in {"d", "O"}
                   /\ cur_force' = ZeroForce
                \/ /\ key = "p"
                   /\ ~paused
                   /\ cur_force' = ZeroForce ]_vars

\* the command B is writing was composed by the tick handler
SendingFromTick ==
    /\ bPc = "b_write"
    /\ "fd_from_d" \in rfds
    /\ bNext # "b_st"

\* B answers a tick inside the repulsion zone of an obstacle: the command
\* differs from the accumulator, which holds what a key has set
C17_Witness ==
    /\ SendingFromTick
    /\ cur_force # ZeroForce
    /\ bOut[1] # cur_force

\* the obstacle field at B's mirror of the drone state
FieldAtMirror == compute_obstacle_P(cur_state, g_obstacles)

\* its projection on the best of the eight directions, in coarse units of
\* force (0 when there is no field or no direction)
ProjectionAtMirror ==
    LET P   == FieldAtMirror
        idx == best_dir8_for_vector(P[1], P[2])
    IN IF P = <<0, 0>> \/ idx < 0 THEN 0
       ELSE dot2(P[1], P[2], g_dir8[idx].ux, g_dir8[idx].uy)

\* the command B is writing carries the accumulator and nothing else
SendsAccumulatorAlone ==
    /\ bOut[1].Fx = cur_force.Fx
    /\ bOut[1].Fy = cur_force.Fy

\* C18: whenever B sends a command while the obstacle field at the
\* mirrored position is not zero (the drone is strictly inside the
\* clearance of an active obstacle and the contributions do not cancel),
\* the force sent differs from the accumulator.
C18_RepulsionAlwaysSent ==
    (bOut # <<>> /\ FieldAtMirror # <<0, 0>>) => ~SendsAccumulatorAlone

\* C18 (amended): whenever B sends a command, the force sent differs from
\* the accumulator if the projection of the obstacle field on its best
\* direction exceeds half a force_step, and is the accumulator alone if
\* the projection is at most half a force_step, a field of zero included.
C18_RepulsionSentWhenItRounds ==
    bOut # <<>> =>
        /\ 2 * ProjectionAtMirror > force_step * Coarse
              => ~SendsAccumulatorAlone
        /\ 2 * ProjectionAtMirror <= force_step * Coarse
              => SendsAccumulatorAlone

\* B sends the accumulator alone from inside the clearance of an obstacle
\* whose field is not zero
C18_Witness ==
    /\ bOut # <<>>
    /\ FieldAtMirror # <<0, 0>>
    /\ ProjectionAtMirror > 0
    /\ SendsAccumulatorAlone

\* B, at the top of its loop, finds the flag its SIGUSR2 handler has set
BObservesWarning ==
    /\ bPc = "b_top"
    /\ bPc' # bPc
    /\ g_wd_warning_flag # 0

ScoreState == <<g_score, g_targets_collected, g_last_hit_step>>

\* C20: the score and the collected count never decrease, and the score
\* state changes only in a step in which B reads a tick in RUNNING mode
\* and finds a target hit; keys (reset and pause included), batches, ticks
\* read while PAUSED and watchdog signals leave all of it unchanged.
C20_ScoreOnlyOnRunningHits ==
    /\ [][ g_score' >= g_score /\ g_targets_collected' >= g_targets_collected ]_vars
    /\ [][ ScoreState' # ScoreState =>
              /\ BReadsTick
              /\ ~paused
              /\ HitSet(Head(stateQ), g_targets) # {}
              /\ g_score' > g_score
              /\ g_targets_collected' > g_targets_collected ]_vars

\* a target was collected, and the score has survived the pause key and a
\* tick read while PAUSED
C20_Witness ==
    /\ g_score > 0
    /\ g_targets_collected = g_score
    /\ paused
    /\ hbCount > g_step_counter

(***************************************************************************)
(* Start-up.  main() forks I, D, O, T and W, then writes the WatchPids     *)
(* record to W and becomes B; W opens its log, reads the record, installs  *)
(* its SIGUSR1 handler and enters its loop.  D has been running since its  *)
(* fork.                                                                   *)
(***************************************************************************)

\* W before its main loop: fopen of the log, read() of the record,
\* sigaction(SIGUSR1)
WStartPc == {"w_open", "w_cfg", "w_install"}

\* where B continues after write(pipe_CFG_to_W[1], &wp, sizeof(wp)):
\* run_server_process, up to its initial send
AfterCfgWrite_Again == "b_cfg"
AfterCfgWrite == "b_write"

\* main(): the WatchPids record is written to W
BWriteCfg ==
    /\ bPc = "b_cfg"
    /\ cfgQ' = Append(cfgQ, "WatchPids")
    /\ bPc' = AfterCfgWrite
    /\ UNCHANGED <<chanVars, rfds, bOut, bNext, bData, bSig, bObs, dVars,
                   prodVars, now, wVars, probe>>

\* FILE *log = open_process_log("watchdog", "W"); fprintf(log, ...)
WOpenLog ==
    /\ wPc = "w_open"
    /\ wPc' = "w_cfg"
    /\ UNCHANGED <<now, g_got_beat, g_last_beat_ts, warned, elapsed, wTermIdx,
                   wSent, epWarns, epSeen, beatInTime, lastStall>>
    /\ UNCHANGED <<sysVars, cfgQ, probe>>

\* int n = read(cfg_read_fd, &p, sizeof(p)): blocks until the record is there
WReadCfg ==
    /\ wPc = "w_cfg"
    /\ cfgQ # <<>>
    /\ cfgQ' = Tail(cfgQ)
    /\ wPc' = "w_install"
    /\ UNCHANGED <<now, g_got_beat, g_last_beat_ts, warned, elapsed, wTermIdx,
                   wSent, epWarns, epSeen, beatInTime, lastStall>>
    /\ UNCHANGED <<sysVars, probe>>

\* sigaction(SIGUSR1, &sa, NULL); clock_gettime(&g_last_beat_ts); warned = 0
WInstall ==
    /\ wPc = "w_install"
    /\ g_last_beat_ts' = now
    /\ warned' = 0
    /\ wPc' = "w_flag"
    /\ UNCHANGED <<now, g_got_beat, elapsed, wTermIdx, wSent, epWarns, epSeen,
                   beatInTime, lastStall>>
    /\ UNCHANGED <<sysVars, cfgQ, probe>>

\* kill(pid_W, SIGUSR1) as W receives it: on_sigusr1 runs if it is
\* installed; before that the signal has its default action and ends W
HeartbeatDelivered(sent) ==
    IF ~sent \/ wPc \in {"w_done", "w_killed"}
      THEN UNCHANGED wVars
    ELSE IF wPc \in WStartPc
      THEN /\ wPc' = "w_killed"
           /\ UNCHANGED <<g_got_beat, g_last_beat_ts, warned, elapsed,
                          wTermIdx, wSent, epWarns, epSeen, beatInTime,
                          lastStall>>
    ELSE /\ g_got_beat' = 1
         /\ beatInTime' = (beatInTime \/ (now - g_last_beat_ts < KILL_SEC))
         /\ UNCHANGED <<g_last_beat_ts, warned, elapsed, wPc, wTermIdx, wSent,
                        epWarns, epSeen, lastStall>>

\* the tick handler together with the delivery of its heartbeat
BTickBeat ==
    /\ BTickCore
    /\ HeartbeatDelivered(stateQ # <<>>)
    /\ UNCHANGED now

InitStart ==
    /\ now = 0
    /\ InitWAt("w_open")
    /\ InitSysAt("b_cfg")
    /\ probe = NoProbe

NextStart ==
    \/ BWriteCfg
    \/ WOpenLog
    \/ WReadCfg
    \/ WInstall
    \/ BWrite
    \/ BTop
    \/ BSelect
    \/ BTickBeat
    \/ DStep

SpecStart == InitStart /\ [][NextStart]_vars

\* C21: the start-up record is written to W exactly once: only by the
\* step of main() that leaves the writing position for good, never again;
\* and at that step B has not yet signalled a heartbeat.
C21_RecordOnceBeforeHeartbeat ==
    /\ [][ cfgQ' # cfgQ =>
              \/ cfgQ # <<>> /\ cfgQ' = Tail(cfgQ)
              \/ /\ cfgQ' = Append(cfgQ, "WatchPids")
                 /\ bPc = "b_cfg"
                 /\ bPc' # "b_cfg"
                 /\ hbCount = 0 ]_vars
    /\ [][ bPc' = "b_cfg" => bPc = "b_cfg" ]_vars
    /\ [][ bPc = "b_cfg" /\ bPc' # "b_cfg" => cfgQ' = Append(cfgQ, "WatchPids") ]_vars
    /\ [][ hbCount' # hbCount => bPc # "b_cfg" ]_vars

\* the record was written and read, and B has signalled a heartbeat
C21_Witness ==
    /\ hbCount > 0
    /\ cfgQ = <<>>
    /\ wPc = "w_flag"

\* C27: whenever B signals a heartbeat, W has installed its handler; W is
\* never ended by a heartbeat.
C27_HandlerBeforeFirstHeartbeat ==
    /\ [][ hbCount' # hbCount => wPc \notin WStartPc ]_vars
    /\ [](wPc # "w_killed")

(***************************************************************************)
(* D's integration step at positions and velocities of a run in progress.  *)
(***************************************************************************)

\* positions of the drone: the centre, exactly wall_clearance from a wall,
\* and inside the clearance
DynX == {-47 * Scale, -45 * Scale, 0, 45 * Scale, 46 * Scale}
DynY == {-46 * Scale, 0, 45 * Scale}
DynV == {0, Scale \div 4}

\* the user force B holds: multiples of force_step
DynForces ==
    { [Fx |-> fx * force_step * Scale, Fy |-> fy * force_step * Scale, reset |-> 0] :
        fx \in {-1, 0, 1}, fy \in {-2, 0} }

\* a run in progress, no key or batch pending: B is at the top of its
\* loop holding the user force F, which D has consumed; D is at state s,
\* which B has mirrored
InitDyn ==
    /\ now = 0
    /\ InitW
    /\ keyQ = <<>> /\ forceQ = <<>> /\ stateQ = <<>>
    /\ obsQ = <<>> /\ tgtQ = <<>> /\ cfgQ = <<>>
    /\ probe = NoProbe
    /\ bPc = "b_top" /\ rfds = {} /\ bOut = <<>> /\ bNext = "b_top"
    /\ cur_force \in DynForces
    /\ \E x \in DynX, y \in DynY, v \in DynV :
          d_s = [x |-> x, y |-> y, vx |-> v, vy |-> 0]
    /\ cur_state = d_s
    /\ d_f = cur_force
    /\ paused = FALSE
    /\ g_score = 0 /\ g_targets_collected = 0
    /\ g_last_hit_step = 0 /\ g_step_counter = 0
    /\ wd_warning_active = 0 /\ g_wd_warning_flag = 0 /\ g_wd_stop = 0
    /\ g_obstacles = [i \in 1..NUM_OBSTACLES |-> ZeroSlot]
    /\ g_targets = [i \in 1..NUM_TARGETS |-> ZeroSlot]
    /\ hbCount = 0 /\ bExitCause = "none" /\ lastBatch = "none"
    /\ lastAccepted = 0 /\ keysIgnored = 0
    /\ dPc = "d_read" /\ dTicks = 0 /\ dCause = "none"
    /\ iPc = "i_run" /\ keysSent = 0
    /\ oPc = "o_run" /\ tPc = "t_run" /\ batchesSent = 0

NextDyn ==
    \/ BLoopStep
    \/ DStep

SpecDyn == InitDyn /\ [][NextDyn]_vars

(***************************************************************************)
(* A call of best_dir8_for_vector.                                         *)
(***************************************************************************)

\* components of the vectors quantized: those of the table, and smaller
\* and larger ones
QuantCoords == {-2 * Unit, -Unit, -INV_SQRT2, -1, 0, 1, INV_SQRT2, Unit}

InitQuant ==
    /\ now = 0
    /\ InitW
    /\ InitSys
    /\ \E px \in QuantCoords, py \in QuantCoords :
          probe = [Px |-> px, Py |-> py, returned |-> FALSE, idx |-> -1]

\* int idx = best_dir8_for_vector(Px, Py)
CallBestDir ==
    /\ probe # NoProbe
    /\ ~probe.returned
    /\ probe' = [probe EXCEPT !.returned = TRUE,
                              !.idx = best_dir8_for_vector(probe.Px, probe.Py)]
    /\ UNCHANGED <<now, wVars, sysVars, cfgQ>>

NextQuant == CallBestDir

SpecQuant == InitQuant /\ [][NextQuant]_vars

(***************************************************************************)
(* B and D with a force pipe that holds several commands.                  *)
(***************************************************************************)

\* commands the force pipe holds before a write blocks
BacklogCap == 5

BWriteRoomy == BWriteTo(BacklogCap)

NextBacklog ==
    \/ BWriteRoomy
    \/ BTop
    \/ BSelect
    \/ BTick
    \/ BKey
    \/ BExit
    \/ DStep
    \/ \E key \in Keys : ISend(key)
    \/ IEof

SpecBacklog == Init /\ [][NextBacklog]_vars

(***************************************************************************)
(* Claims about D's integration step and the functions of util.c.          *)
(***************************************************************************)

\* D completes the first half of an iteration: one integration step
DIntegrates == dPc = "d_read" /\ dPc' = "d_write"

\* C22: D starts from the zero state; a tick that starts from the zero
\* state (or from a reset) and integrates a force of zero yields the zero
\* state again, and what D writes is the state it holds; so as long as no
\* key was sent, when every command B sends carries zero force, D's state
\* and every state on the pipe are {0,0,0,0}, after any number of ticks.
C22_ZeroForceKeepsRest ==
    /\ d_s = ZeroState
    /\ [][ ( /\ DIntegrates
             /\ d_f'.Fx = 0 /\ d_f'.Fy = 0
             /\ \/ d_s = ZeroState
                \/ forceQ # <<>> /\ Head(forceQ).reset # 0 )
           => d_s' = ZeroState ]_vars
    /\ [][ Len(stateQ') > Len(stateQ) => stateQ' = Append(stateQ, d_s) ]_vars
    /\ [](keysSent = 0 =>
             /\ d_s = ZeroState
             /\ \A i \in 1..Len(stateQ) : stateQ[i] = ZeroState)

\* D has run all its ticks on zero-force commands, and B has read states
C22_Witness ==
    /\ keysSent = 0
    /\ dTicks = MaxTicks
    /\ hbCount >= 2
    /\ stateQ = <<ZeroState>>

\* the force D integrates with in a step: the command it consumes, or the
\* one it holds when none is waiting
ForceApplied == d_f'

\* every wall is at least wall_clearance away from s
FarFromWalls(s) ==
    /\ world_half * Scale - Abs(s.x) >= wall_clearance * Scale
    /\ world_half * Scale - Abs(s.y) >= wall_clearance * Scale

\* C23: a tick of D from rest at the origin with the force (5, 0) yields
\* vx = 0.25, vy = 0, x = 0.0125, y = 0; and in every tick the position
\* advances by dt times the velocity the same tick has produced.
C23_OneTickFromRest ==
    /\ [][ ( /\ DIntegrates
             /\ d_s = ZeroState
             /\ ForceApplied.Fx = force_step * Scale
             /\ ForceApplied.Fy = 0 )
           => d_s' = [x |-> Scale \div 80, y |-> 0, vx |-> Scale \div 4, vy |-> 0] ]_vars
    /\ [][ DIntegrates =>
             /\ d_s'.x = d_s.x + Div(d_s'.vx, dtInv)
             /\ d_s'.y = d_s.y + Div(d_s'.vy, dtInv) ]_vars

\* D has made the tick from rest with the force (5, 0) and written the state
C23_Witness ==
    /\ dTicks = 1
    /\ dPc = "d_read"
    /\ d_f = [Fx |-> force_step * Scale, Fy |-> 0, reset |-> 0]
    /\ stateQ = <<[x |-> Scale \div 80, y |-> 0, vx |-> Scale \div 4, vy |-> 0]>>

\* C24: at every position at least wall_clearance from each wall the wall
\* field is (0, 0), and a tick of D from there accelerates the drone by
\* the received force (less the damping) alone.
C24_NoWallFieldBeyondClearance ==
    /\ [](FarFromWalls(d_s) => compute_wall_P(d_s) = <<0, 0>>)
    /\ [][ (DIntegrates /\ FarFromWalls(d_s)) =>
             /\ d_s'.vx = d_s.vx
                    + Div(Div(ForceApplied.Fx - visc * d_s.vx, mass), dtInv)
             /\ d_s'.vy = d_s.vy
                    + Div(Div(ForceApplied.Fy - visc * d_s.vy, mass), dtInv) ]_vars

\* D has made a tick from a position exactly wall_clearance from the right
\* wall, under a force
C24_Witness ==
    /\ dTicks = 1
    /\ dPc = "d_write"
    /\ d_f.Fx # 0
    /\ d_s.x = 45 * Scale + Div(d_s.vx, dtInv)
    /\ d_s.y = 0

\* C25: quantizing the unit vector of a table direction returns that
\* direction's index; quantizing the zero vector, or a vector none of whose
\* 8 projections is positive, returns no direction (-1).
C25_QuantizeTableDirections ==
    (probe # NoProbe /\ probe.returned) =>
        /\ \A i \in 1..8 :
              (probe.Px = g_dir8[i].ux /\ probe.Py = g_dir8[i].uy)
                  => probe.idx = i
        /\ (probe.Px = 0 /\ probe.Py = 0) => probe.idx = -1
        /\ (\A i \in 1..8 :
                dot2(probe.Px, probe.Py, g_dir8[i].ux, g_dir8[i].uy) <= 0)
              => probe.idx = -1

\* the unit vector of the last direction of the table (down-right) has
\* been quantized
C25_Witness ==
    /\ probe # NoProbe
    /\ probe.returned
    /\ probe.Px = INV_SQRT2 /\ probe.Py = -INV_SQRT2
    /\ probe.idx = 8

\* the most commands that wait unread when no key is pressed: B's initial
\* command and its answers to the states D can have written or be writing
KeyFreeBacklog == 2 + StateCap

\* C26: the number of unread commands in the force pipe never exceeds
\* what it can be without any key event, however many keys B handled.
C26_BacklogIndependentOfKeys == Len(forceQ) <= KeyFreeBacklog

\* C26 (amended): D takes at most one command from the pipe per tick, and
\* B adds one per tick it answers and one per key; the number of unread
\* commands is bounded by the capacity of the pipe and by the key-free
\* backlog plus the number of keys sent, and nothing smaller.
C26_BacklogBoundedByKeysAndCapacity ==
    /\ [][Len(forceQ') >= Len(forceQ) - 1]_vars
    /\ [](Len(forceQ) <= BacklogCap)
    /\ [](Len(forceQ) <= KeyFreeBacklog + keysSent)

\* every key has added a command to the backlog
C26_Witness ==
    /\ keysSent = MaxKeys
    /\ Len(forceQ) = KeyFreeBacklog + MaxKeys

(***************************************************************************)
(* The shutdown: B, D and the key source together with W's signals.        *)
(***************************************************************************)

\* B's event loop has ended: B is past its loop, or its process has ended
BLoopEnded == bPc \in {"b_exit", "b_done", "b_killed"}

\* with B's loop ended no heartbeat is signalled any more: W's kill stage
\* finds elapsed >= kill_sec (SpecWFair: W reaches the broadcast once it
\* records no heartbeat for kill_sec)
StallExpires ==
    /\ BLoopEnded
    /\ WExpires

\* the keys of the shutdown: the quit key, and the pause key before it
ShutdownKeys == {"q", "p"}

\* where a signal handled by B leaves it: a select() in progress returns
\* -1 with EINTR; a signal that arrives just before the call does not
\* interrupt it
AfterSignal(pc) == IF pc = "b_select" THEN {"b_select", "b_eintr"} ELSE {pc}

\* SIGUSR2 reaches B, possibly inside select()
WarningInterrupts ==
    /\ on_watchdog_warningCore
    /\ bPc' \in AfterSignal(bPc)

\* W's broadcast, its SIGTERM reaching B possibly inside select()
BroadcastInterrupts ==
    /\ WBroadcastCore
    /\ bPc' \in (IF TermOrder[wTermIdx + 1] = "B" THEN AfterSignal(bPc)
                                                 ELSE {bPc})

\* if (errno == EINTR) continue: the wait is started again
BRetry ==
    /\ bPc = "b_eintr"
    /\ bPc' = "b_select"
    /\ UNCHANGED <<chanVars, rfds, bOut, bNext, bData, bSig, bObs, dVars,
                   prodVars, now, wVars, cfgQ, probe>>

NextShutdown ==
    \/ BLoopStep
    \/ BRetry
    \/ BKey
    \/ BExit
    \/ DStep
    \/ \E key \in ShutdownKeys : ISend(key)
    \/ IEof
    \/ WarningInterrupts
    \/ WExpires
    \/ BroadcastInterrupts

SpecShutdown == Init /\ [][NextShutdown]_vars

\* B and W are processes of their own and are scheduled again and again:
\* B takes the step of its position whenever it can (a handler it has
\* entered can always finish), W its broadcast
SpecShutdownFair ==
    /\ SpecShutdown
    /\ WF_vars(BTop)
    /\ WF_vars(BSelect)
    /\ WF_vars(BRetry)
    /\ WF_vars(BWrite)
    /\ WF_vars(BExit)
    /\ []<>(bPc # "b_kb")
    /\ []<>(bPc # "b_st")
    /\ WF_vars(StallExpires)
    /\ WF_vars(BroadcastInterrupts)

(***************************************************************************)
(* Claims about the watchdog's escalation and the shutdown.                *)
(***************************************************************************)

\* C28: (warn_sec <= kill_sec) W starts its termination broadcast only
\* after it has sent a warning to B since the last heartbeat it recorded;
\* a poll that finds the kill threshold exceeded without a warning sent
\* sends the warning first; the signal before the first SIGTERM is always
\* a warning.
C28_WarningBeforeBroadcast ==
    /\ WARN_SEC <= KILL_SEC
    /\ [](WTerminating => (warned = 1 /\ epWarns >= 1))
    /\ [][ (wPc = "w_warn" /\ wPc' # wPc /\ warned = 0 /\ elapsed >= KILL_SEC)
              => (wSent' = Append(wSent, WarningSignal) /\ wPc' = "w_kill") ]_vars
    /\ [](\A i \in 1..Len(wSent) :
             (wSent[i].sig = "SIGTERM" /\ wSent[i].to = "B")
                 => (i > 1 /\ wSent[i - 1] = WarningSignal))

\* W has warned and is broadcasting in a stall that began after a recorded
\* heartbeat, without a warning in the stall before
C28_Witness ==
    /\ wPc = "w_term"
    /\ g_last_beat_ts > 0
    /\ lastStall.warns = 0
    /\ wSent = <<WarningSignal, [sig |-> "SIGTERM", to |-> "B"]>>

\* every process has ended
AllTerminated ==
    /\ BGone
    /\ iPc = "i_done"
    /\ dPc = "d_done"
    /\ oPc = "o_done"
    /\ tPc = "t_done"
    /\ wPc = "w_done"

C30_StopFlagEndsLoop ==
    /\ [][ (g_wd_stop # 0 /\ bPc' = "b_select" /\ bPc' # bPc) => bPc = "b_eintr" ]_vars
    /\ [][ (g_wd_stop # 0 /\ bPc' = "b_eintr") => bPc = "b_eintr" ]_vars
    /\ [][ (bPc = "b_select" /\ bPc' \notin {bPc, "b_eintr"} /\ Readable = {})
              => bPc' = "b_top" ]_vars
    /\ [][ (bPc = "b_top" /\ bPc' # bPc /\ g_wd_stop # 0) => bPc' = "b_exit" ]_vars
    /\ (g_wd_stop # 0) ~> BLoopEnded

\* after SIGTERM, with I and D still running and nothing to read, the
\* flag has ended B's loop
C30_Witness ==
    /\ bPc = "b_exit"
    /\ bExitCause = "wd_stop"
    /\ wTermIdx = 1
    /\ iPc = "i_run" /\ keyQ = <<>> /\ stateQ = <<>>


(***************************************************************************)
(* Claims about validation, ticks, pause and lifetimes.                    *)
(***************************************************************************)

\* the candidates of msg that B examines: the first min(count, capacity)
Examined(msg, capacity) ==
    1..(IF msg.count > capacity THEN capacity ELSE msg.count)

\* the examined candidates of msg that neither a wall test nor an active
\* entity of the array other rules out
Admissible(msg, capacity, other, wallTested) ==
    {i \in Examined(msg, capacity) :
        /\ ~(wallTested /\ target_too_close_to_wall(msg.ent[i].x, msg.ent[i].y,
                                                    WallMargin))
        /\ ~too_close_to_any_pointlike(msg.ent[i].x, msg.ent[i].y, other,
                                       SpawnClearance)}

\* C31: when B processes a batch in RUNNING mode, a candidate is rejected
\* only for wall proximity (targets) or for being within the spawn
\* clearance of an active entity of the other kind; entities of its own
\* kind, from the previous batch or accepted earlier from the same batch,
\* never cause a rejection: the number accepted is the number of examined
\* candidates that pass those two tests.
C31_RejectionNeverByOwnKind ==
    [][ /\ (~paused /\ BReadsBatch("obs")) =>
              lastAccepted' = Cardinality(Admissible(Head(obsQ), NUM_OBSTACLES,
                                                     g_targets, FALSE))
        /\ (~paused /\ BReadsBatch("tgt")) =>
              lastAccepted' = Cardinality(Admissible(Head(tgtQ), NUM_TARGETS,
                                                     g_obstacles, TRUE))
      ]_vars

\* C32: B answers a tick with a command to D only in RUNNING mode: a tick
\* read while PAUSED prepares no command and leaves the force pipe alone; a
\* tick read while RUNNING prepares exactly one command, the total force
\* composed from the accumulator, the state received and the aged
\* obstacles.
C32_TickSendsOnlyWhenRunning ==
    [][ BReadsTick =>
          IF paused
            THEN /\ bOut' = <<>>
                 /\ bPc' # "b_write"
                 /\ forceQ' = forceQ
            ELSE /\ bPc' = "b_write"
                 /\ bOut' = <<TotalForce(cur_force, Head(stateQ), g_obstacles')>>
      ]_vars

\* B's key handler takes its step and finds the pause key
BReadsPause ==
    /\ bPc = "b_kb"
    /\ bPc' # bPc
    /\ keyQ # <<>>
    /\ Head(keyQ) = "p"

\* the command B is writing was composed by the key handler
SendingFromKey ==
    /\ bPc = "b_write"
    /\ "fd_kb" \in rfds
    /\ ~SendingFromTick

\* C33: a pause key read in RUNNING mode sets the Mode to PAUSED and makes
\* B send exactly one command, with Fx = 0, Fy = 0 and the reset flag
\* clear; a pause key read in PAUSED mode sets the Mode to RUNNING and
\* sends nothing.
C33_PauseSendsZeroForce ==
    [][ BReadsPause =>
          IF ~paused
            THEN /\ paused'
                 /\ bPc' = "b_write"
                 /\ bOut' = <<ZeroForce>>
            ELSE /\ ~paused'
                 /\ bPc' # "b_write"
                 /\ bOut' = <<>>
                 /\ forceQ' = forceQ ]_vars

\* C33 (amended): a pause key read in RUNNING mode sets the Mode to PAUSED,
\* zeroes the accumulator and makes B send exactly one command with the
\* reset flag clear: the total force composed from the zeroed accumulator,
\* which is the virtual key of the obstacle field at the mirrored position
\* and is zero when the projection of that field is at most half a
\* force_step; a pause key read in PAUSED mode sets the Mode to RUNNING,
\* leaves the accumulator alone and sends nothing.
C33_PauseSendsComposedZeroedForce ==
    /\ [][ BReadsPause =>
             IF ~paused
               THEN /\ paused'
                    /\ cur_force' = ZeroForce
                    /\ bPc' = "b_write"
                    /\ bOut' = <<TotalForce(ZeroForce, cur_state, g_obstacles)>>
                    /\ bOut'[1].reset = 0
                    /\ 2 * ProjectionAtMirror <= force_step * Coarse
                          => bOut' = <<ZeroForce>>
                    /\ 2 * ProjectionAtMirror > force_step * Coarse
                          => bOut' # <<ZeroForce>>
               ELSE /\ ~paused'
                    /\ bPc' # "b_write"
                    /\ bOut' = <<>>
                    /\ UNCHANGED <<forceQ, cur_force>> ]_vars
    /\ [][ (bPc = "b_write" /\ bPc' # bPc /\ bPc' # "b_killed") =>
              /\ forceQ' = Append(forceQ, bOut[1])
              /\ bOut' = <<>> ]_vars

\* B has entered PAUSED inside the repulsion zone of an obstacle and is
\* writing the command of the pause key: its force is not zero
C33_Witness ==
    /\ SendingFromKey
    /\ paused
    /\ cur_force = ZeroForce
    /\ bOut[1] # ZeroForce
    /\ bOut[1].reset = 0

(***************************************************************************)
(* Target collection: B and D with the drone at rest at the origin, and    *)
(* the target generator sending batches whose candidates lie on, inside    *)
(* and outside the hit radius.                                             *)
(***************************************************************************)

\* world_half * 0.08, the hit radius of check_target_hits, in coarse units
R_hit == (world_half * 8 * Coarse) \div 100

\* on the hit radius, inside it, and outside it
HitCandidates ==
    { [x |-> 4 * Scale, y |-> 0, life_steps |-> 3],
      [x |-> -(39 * Scale) \div 10, y |-> 0, life_steps |-> 3],
      [x |-> 0, y |-> 9 * Scale, life_steps |-> 3] }

HitBatches == {Batch(c, a, b) : c \in {1, 2, 3}, a \in HitCandidates,
                                b \in HitCandidates}

NextHits ==
    \/ BLoopStep
    \/ BTargets
    \/ DStep
    \/ \E msg \in HitBatches : TSend(msg)

SpecHits == Init /\ [][NextHits]_vars

\* the active targets within the hit radius of position st
WithinHitRadius(st) ==
    {i \in 1..NUM_TARGETS :
        /\ g_targets[i].active # 0
        /\ Dist2(st.x, st.y, g_targets[i].x, g_targets[i].y) <= R_hit * R_hit}

\* C34: on a tick read in RUNNING mode, every active target within the hit
\* radius of the received position is deactivated with lifetime 0, the
\* score and the collected count each grow by the number of those targets,
\* and the last-hit step becomes the step of this tick if there is one;
\* targets outside the radius and inactive targets are neither counted nor
\* moved, and a target becomes active again only when a batch is processed.
C34_HitsCountedOnce ==
    /\ [][ (BReadsTick /\ ~paused) =>
             LET H == WithinHitRadius(Head(stateQ))
             IN /\ g_step_counter' = g_step_counter + 1
                /\ g_score' = g_score + Cardinality(H)
                /\ g_targets_collected' = g_targets_collected + Cardinality(H)
                /\ g_last_hit_step' = IF H # {} THEN g_step_counter'
                                                ELSE g_last_hit_step
                /\ \A i \in H : /\ g_targets'[i].active = 0
                                /\ g_targets'[i].life_steps = 0
                /\ \A i \in (1..NUM_TARGETS) \ H :
                      /\ g_targets'[i].x = g_targets[i].x
                      /\ g_targets'[i].y = g_targets[i].y
                      /\ g_targets[i].active = 0 => g_targets'[i] = g_targets[i]
           ]_vars
    /\ [][ (\E i \in 1..NUM_TARGETS :
               g_targets[i].active = 0 /\ g_targets'[i].active # 0)
             => (BReadsBatch("tgt") /\ ~paused) ]_vars

\* two targets were collected on the first tick, the third target of the
\* batch, outside the radius, was not, and a second tick has counted
\* nothing more
C34_Witness ==
    /\ g_score = 2
    /\ g_targets_collected = 2
    /\ g_last_hit_step = 1
    /\ g_step_counter = 2
    /\ g_targets[1].active = 0 /\ g_targets[1].x # 0
    /\ g_targets[2].active = 0 /\ g_targets[2].x # 0
    /\ g_targets[3].y # 0
    /\ batchesSent = 1

(***************************************************************************)
(* Lifetimes: B and D, the pause key, and one batch of either kind whose   *)
(* single candidate, away from the drone, carries a lifetime of any sign.  *)
(***************************************************************************)

\* the lifetimes a batch message can carry: life_steps is a plain int
Lifetimes == {-1, 0, 1, 2}

LifeBatches ==
    {Batch(1, [x |-> 14 * Scale, y |-> 0, life_steps |-> l],
              [x |-> 14 * Scale, y |-> 0, life_steps |-> l]) : l \in Lifetimes}

NextLife ==
    \/ BLoopStep
    \/ BKey
    \/ BObstacles
    \/ BTargets
    \/ DStep
    \/ ISend("p")
    \/ (batchesSent = 0 /\ \E msg \in LifeBatches : OSend(msg))
    \/ (batchesSent = 0 /\ \E msg \in LifeBatches : TSend(msg))

SpecLife == Init /\ [][NextLife]_vars

\* what one tick processed in RUNNING mode leaves of entity e when it is
\* not collected: one step less to live, inactive when none is left
OneStepOlder(e) ==
    [e EXCEPT !.life_steps = e.life_steps - 1,
              !.active = IF e.life_steps - 1 = 0 THEN 0 ELSE e.active]

\* C35: an entity accepted from a batch starts active with the lifetime L
\* of its candidate; each tick processed in RUNNING mode takes one step off
\* the lifetime of an active entity with lifetime > 0 and deactivates it
\* when none is left, unless (a target) it is collected on that tick; a
\* tick processed while PAUSED changes no entity, and nothing but a RUNNING
\* tick or a batch of its kind processed in RUNNING mode changes an entity:
\* the entity is active for exactly L ticks processed in RUNNING mode.
C35_ActiveForLifetimeTicks ==
    /\ [][ (BReadsBatch("obs") /\ ~paused) =>
              \A i \in 1..lastAccepted' :
                  /\ g_obstacles'[i].active # 0
                  /\ \E j \in Examined(Head(obsQ), NUM_OBSTACLES) :
                        /\ g_obstacles'[i].x = Head(obsQ).ent[j].x
                        /\ g_obstacles'[i].y = Head(obsQ).ent[j].y
                        /\ g_obstacles'[i].life_steps = Head(obsQ).ent[j].life_steps
           ]_vars
    /\ [][ (BReadsBatch("tgt") /\ ~paused) =>
              \A i \in 1..lastAccepted' :
                  /\ g_targets'[i].active # 0
                  /\ \E j \in Examined(Head(tgtQ), NUM_TARGETS) :
                        /\ g_targets'[i].x = Head(tgtQ).ent[j].x
                        /\ g_targets'[i].y = Head(tgtQ).ent[j].y
                        /\ g_targets'[i].life_steps = Head(tgtQ).ent[j].life_steps
           ]_vars
    /\ [][ (BReadsTick /\ ~paused) =>
              /\ \A i \in 1..NUM_OBSTACLES :
                    (g_obstacles[i].active # 0 /\ g_obstacles[i].life_steps > 0)
                       => g_obstacles'[i] = OneStepOlder(g_obstacles[i])
              /\ \A i \in (1..NUM_TARGETS) \ WithinHitRadius(Head(stateQ)) :
                    (g_targets[i].active # 0 /\ g_targets[i].life_steps > 0)
                       => g_targets'[i] = OneStepOlder(g_targets[i])
           ]_vars
    /\ [][ (BReadsTick /\ paused) => UNCHANGED <<g_obstacles, g_targets>> ]_vars
    /\ [][ g_obstacles' # g_obstacles =>
              /\ ~paused
              /\ BReadsTick \/ BReadsBatch("obs") ]_vars
    /\ [][ g_targets' # g_targets =>
              /\ ~paused
              /\ BReadsTick \/ BReadsBatch("tgt") ]_vars

\* an obstacle of lifetime 2 is gone after three ticks: one of them was
\* processed while PAUSED and did not count
C35_Witness ==
    /\ g_obstacles[1].x # 0
    /\ g_obstacles[1].active = 0
    /\ g_obstacles[1].life_steps = 0
    /\ g_step_counter = 2
    /\ hbCount = 3
    /\ batchesSent = 1

C37_PausedAccumulatorZero ==
    paused => (cur_force.Fx = 0 /\ cur_force.Fy = 0)

\* B is PAUSED with a zero accumulator while D still integrates the force
\* of a directional key handled before the pause
C37_Witness ==
    /\ paused
    /\ cur_force = ZeroForce
    /\ d_f.Fx # 0
    /\ d_s.vx # 0

\* C38: a tick of D takes at most one command off the force pipe and is
\* never held up by an empty pipe; a tick that finds none integrates its
\* state with the force adopted before, which it keeps; a tick that finds
\* a command adopts its force with the flag cleared and, if the flag was
\* set, starts the integration from the zero state on that tick; the force
\* D holds never carries a reset flag, so no later tick resets again.
C38_OneCommandPerTickNonBlocking ==
    /\ [][ DIntegrates =>
             IF forceQ = <<>>
               THEN /\ forceQ' = forceQ
                    /\ d_f' = d_f
                    /\ d_s' = Integrate(d_f, d_s)
               ELSE /\ forceQ' = Tail(forceQ)
                    /\ d_f' = [Head(forceQ) EXCEPT !.reset = 0]
                    /\ d_s' = Integrate(d_f',
                                        IF Head(forceQ).reset # 0 THEN ZeroState
                                                                  ELSE d_s)
           ]_vars
    /\ [][ Len(forceQ') < Len(forceQ) => DIntegrates ]_vars
    /\ [](d_f.reset = 0)
    /\ []((dPc = "d_read" /\ dTicks < MaxTicks /\ forceQ = <<>>)
             => ENABLED DRead)

\* D has made a tick that left the pipe empty, with a force that is not
\* zero: its new state is one step, under the force it holds, from the
\* state of the tick before, which still waits on the state pipe
C38_Witness ==
    /\ dPc = "d_write"
    /\ forceQ = <<>>
    /\ stateQ # <<>>
    /\ d_f.Fx # 0
    /\ d_f.reset = 0
    /\ Head(stateQ) # ZeroState
    /\ d_s = Integrate(d_f, Head(stateQ))

(***************************************************************************)
(* A generator that ends while B is running: B and D, the two generators   *)
(* sending one plain batch, and either generator's process ending (its     *)
(* write end of the batch pipe is closed by its exit).                     *)
(***************************************************************************)

\* run_obstacle_process leaves its loop, closes write_fd and exits (or the
\* process is ended by a signal and the kernel closes the descriptor)
OEnds ==
    /\ oPc = "o_run"
    /\ oPc' = "o_done"
    /\ UNCHANGED <<chanVars, bCtl, bData, bSig, bObs, dVars, iPc, keysSent,
                   tPc, batchesSent, now, wVars>>
    /\ UNCHANGED <<cfgQ, probe>>

\* the same for run_target_process
TEnds ==
    /\ tPc = "t_run"
    /\ tPc' = "t_done"
    /\ UNCHANGED <<chanVars, bCtl, bData, bSig, bObs, dVars, iPc, keysSent,
                   oPc, batchesSent, now, wVars>>
    /\ UNCHANGED <<cfgQ, probe>>

NextGenEnd ==
    \/ BLoopStep
    \/ BObstacles
    \/ BTargets
    \/ DStep
    \/ (batchesSent = 0 /\ \E msg \in PlainBatches : OSend(msg))
    \/ (batchesSent = 0 /\ \E msg \in PlainBatches : TSend(msg))
    \/ OEnds
    \/ TEnds

SpecGenEnd == Init /\ [][NextGenEnd]_vars

\* B's handler of the obstacle pipe (kind = "obs") or of the target pipe
\* takes its step and its read returns 0: the generator has closed the pipe
BReadsGeneratorEof(kind) ==
    /\ bPc = (IF kind = "obs" THEN "b_obs" ELSE "b_tgt")
    /\ bPc' # bPc
    /\ (IF kind = "obs" THEN obsQ ELSE tgtQ) = <<>>

\* C39: when B's read of the obstacle pipe or of the target pipe returns 0,
\* B leaves its event loop for its clean-up, and the obstacle and target
\* arrays stay as they were.
C39_GeneratorEofEndsLoop ==
    [][ (BReadsGeneratorEof("obs") \/ BReadsGeneratorEof("tgt")) =>
            /\ bPc' = "b_exit"
            /\ UNCHANGED <<g_obstacles, g_targets>> ]_vars

(***************************************************************************)
(* Short reads: B, D, a directional key and batches near the drone, where  *)
(* a read() of a message on the force pipe, the state pipe or a batch pipe *)
(* may return fewer bytes than the message has.                            *)
(***************************************************************************)

DReadAny == DReadOf(AnyRead)

BTickAny ==
    /\ BTickOf(AnyRead)
    /\ UNCHANGED <<now, wVars>>

BObstaclesAny == BObstaclesOf(AnyRead)

BTargetsAny == BTargetsOf(AnyRead)

NextPartial ==
    \/ BWrite
    \/ BTop
    \/ BSelect
    \/ BKey
    \/ BTickAny
    \/ BObstaclesAny
    \/ BTargetsAny
    \/ DReadAny
    \/ DWrite
    \/ ISend("f")
    \/ \E msg \in NearBatches : OSend(msg)
    \/ \E msg \in NearBatches : TSend(msg)

SpecPartial == Init /\ [][NextPartial]_vars

====
